---------------------------- MODULE Spec2Model ----------------------------
(***************************************************************************)
(* A model of jpm, a package manager: semantic versions and constraint     *)
(* matching (src/version/version.go), release resolution                   *)
(* (src/db/remote.go), the instruction parser (package parser, kept in the *)
(* second half of src/model/model.go) and the install command              *)
(* (src/cmd/install.go).                                                   *)
(*                                                                         *)
(* Go strings are modelled as sequences of one-character strings, so that  *)
(* parsing, formatting and comparison are computed as the code computes    *)
(* them.                                                                   *)
(***************************************************************************)
EXTENDS Integers, Sequences, FiniteSets, TLC

VARIABLES
    va,          \* SpecCompare: the receiver of Compare, a parsed Version
    vb,          \* SpecCompare: the argument of Compare, a parsed Version
    cmpOut       \* SpecCompare: what the comparison calls returned so far

VARIABLES
    cv,          \* SpecCompat: the receiver of IsCompatible, a parsed Version
    constraint,  \* SpecCompat: the constraint string handed to IsCompatible
    compat       \* SpecCompat: what IsCompatible returned, or NoCall

VARIABLES
    pkgFound,    \* SpecResolve: whether the packages table holds the package
    table,       \* SpecResolve: the package's rows of the releases table
    expr,        \* SpecResolve: the version expression handed to GetRelease
    resolved     \* SpecResolve: what GetRelease returned, or NotResolved

VARIABLES
    pc,            \* SpecInstall: the statement of install that runs next
    goos,          \* SpecInstall: runtime.GOOS of the build
    script,        \* SpecInstall: release.Instructions, the script text
    skipVerify,    \* SpecInstall: the --skip-verify flag
    hasChecksum,   \* SpecInstall: release.ChecksumSHA256 != ""
    packageExists, \* SpecInstall: the local store holds a row of the package
    ctx,           \* SpecInstall: the InstallationContext, or NoContext
    instructions,  \* SpecInstall: what Parser.Parse returned
    ran,           \* SpecInstall: the calls of RunWithContext made so far
    host,          \* SpecInstall: PATH entries and deletions on the host
    store          \* SpecInstall: what install wrote to the local store

VARIABLES
    scriptText,    \* SpecParse: the script text handed to Parser.Parse
    parseOut       \* SpecParse: what Parser.Parse returned, or NotParsed

VARIABLES
    splitLine,     \* SpecSplit: the line handed to smartSplit
    splitOut       \* SpecSplit: what smartSplit returned, or NotSplit

VARIABLES
    vtext,         \* SpecVersion: the string handed to version.Parse
    vout           \* SpecVersion: what Parse and String returned so far

VARIABLES
    pathIn,        \* SpecPath: GOOS, the directory and the PATH setting before
    pathOut        \* SpecPath: the PATH setting and the value returned so far

vars == <<va, vb, cmpOut, cv, constraint, compat,
          pkgFound, table, expr, resolved,
          pc, goos, script, skipVerify, hasChecksum, packageExists,
          ctx, instructions, ran, host, store,
          scriptText, parseOut, splitLine, splitOut, vtext, vout,
          pathIn, pathOut>>

-----------------------------------------------------------------------------
(* Bounds of the model.                                                    *)

\* Major, Minor and Patch of the generated versions range over 0..MaxNum.
MaxNum == 1

\* A package has at most MaxReleases rows in the releases table.
MaxReleases == 3

\* released_at ranges over 1..MaxTime.
MaxTime == 2

-----------------------------------------------------------------------------
(* Go strings: bytes, comparison and the strings/strconv functions used.   *)

\* The printable ASCII characters in code order, from 32 (space) to 126 (~);
\* the grave accent (96), which a TLA+ string cannot hold, is named.
AsciiTable ==
    << " ", "!", "\"", "#", "$", "%", "&", "'", "(", ")", "*", "+", ",", "-",
       ".", "/", "0", "1", "2", "3", "4", "5", "6", "7", "8", "9", ":", ";",
       "<", "=", ">", "?", "@", "A", "B", "C", "D", "E", "F", "G", "H", "I",
       "J", "K", "L", "M", "N", "O", "P", "Q", "R", "S", "T", "U", "V", "W",
       "X", "Y", "Z", "[", "\\", "]", "^", "_", "<grave>", "a", "b", "c", "d", "e",
       "f", "g", "h", "i", "j", "k", "l", "m", "n", "o", "p", "q", "r", "s",
       "t", "u", "v", "w", "x", "y", "z", "{", "|", "}", "~" >>

\* The byte value of a character: tab, newline and carriage return, or a
\* printable character.
Ascii(ch) ==
    CASE ch = "\t" -> 9
      [] ch = "\n" -> 10
      [] ch = "\r" -> 13
      [] OTHER -> 31 + (CHOOSE i \in 1..Len(AsciiTable) : AsciiTable[i] = ch)

Digits == <<"0", "1", "2", "3", "4", "5", "6", "7", "8", "9">>

IsDigit(ch) == \E i \in 1..Len(Digits) : Digits[i] = ch

DigitVal(ch) == (CHOOSE i \in 1..Len(Digits) : Digits[i] = ch) - 1

\* Go's comparison of two strings: bytewise lexicographic; -1, 0 or 1.
RECURSIVE StrCmp(_, _)
StrCmp(s, t) ==
    IF s = <<>> /\ t = <<>> THEN 0
    ELSE IF s = <<>> THEN -1
    ELSE IF t = <<>> THEN 1
    ELSE IF Ascii(Head(s)) < Ascii(Head(t)) THEN -1
    ELSE IF Ascii(Head(s)) > Ascii(Head(t)) THEN 1
    ELSE StrCmp(Tail(s), Tail(t))

\* strings.HasPrefix
HasPrefix(s, p) == Len(s) >= Len(p) /\ SubSeq(s, 1, Len(p)) = p

\* strings.TrimPrefix
TrimPrefix(s, p) == IF HasPrefix(s, p) THEN SubSeq(s, Len(p) + 1, Len(s)) ELSE s

\* strings.Contains for a one-character substring
Contains(s, ch) == \E i \in 1..Len(s) : s[i] = ch

\* strings.ContainsAny
ContainsAny(s, chars) == \E i \in 1..Len(s) : s[i] \in chars

\* strings.Index for a one-character substring; 0 when absent (1-based).
IndexOf(s, ch) ==
    IF Contains(s, ch) THEN CHOOSE i \in 1..Len(s) :
                                s[i] = ch /\ \A j \in 1..(i - 1) : s[j] # ch
    ELSE 0

\* strings.SplitN(s, ch, 2): at most two parts, cut at the first ch.
SplitN2(s, ch) ==
    LET i == IndexOf(s, ch)
    IN  IF i = 0 THEN <<s>>
        ELSE <<SubSeq(s, 1, i - 1), SubSeq(s, i + 1, Len(s))>>

\* strings.Split(s, ch): every part between occurrences of ch; the empty
\* string splits into one empty part.
RECURSIVE Split(_, _)
Split(s, ch) ==
    LET i == IndexOf(s, ch)
    IN  IF i = 0 THEN <<s>>
        ELSE <<SubSeq(s, 1, i - 1)>> \o Split(SubSeq(s, i + 1, Len(s)), ch)

\* strings.ReplaceAll for one-character old and new
ReplaceAll(s, old, new) == [i \in 1..Len(s) |-> IF s[i] = old THEN new ELSE s[i]]

\* The white space strings.TrimSpace removes (the ASCII part of unicode.IsSpace).
IsSpace(ch) == ch \in {" ", "\t", "\n", "\r"}

\* strings.TrimSpace
RECURSIVE TrimLeft(_)
TrimLeft(s) == IF s # <<>> /\ IsSpace(Head(s)) THEN TrimLeft(Tail(s)) ELSE s

RECURSIVE TrimRight(_)
TrimRight(s) ==
    IF s # <<>> /\ IsSpace(s[Len(s)]) THEN TrimRight(SubSeq(s, 1, Len(s) - 1))
    ELSE s

TrimSpace(s) == TrimRight(TrimLeft(s))

\* The value of a non-empty run of decimal digits.
RECURSIVE DigitsVal(_)
DigitsVal(s) ==
    IF s = <<>> THEN 0
    ELSE 10 * DigitsVal(SubSeq(s, 1, Len(s) - 1)) + DigitVal(s[Len(s)])

\* strconv.Atoi: an optional sign and at least one decimal digit; on a
\* syntax error the value is 0 and err is set.
Atoi(s) ==
    LET body == IF s # <<>> /\ Head(s) \in {"+", "-"} THEN Tail(s) ELSE s
        good == body # <<>> /\ \A i \in 1..Len(body) : IsDigit(body[i])
    IN  IF ~good THEN [val |-> 0, err |-> TRUE]
        ELSE [val |-> IF Head(s) = "-" THEN 0 - DigitsVal(body) ELSE DigitsVal(body),
              err |-> FALSE]

\* fmt's %d for an integer.
RECURSIVE NatStr(_)
NatStr(n) ==
    IF n < 10 THEN <<Digits[n + 1]>>
    ELSE NatStr(n \div 10) \o <<Digits[(n % 10) + 1]>>

Itoa(n) == IF n < 0 THEN <<"-">> \o NatStr(0 - n) ELSE NatStr(n)

-----------------------------------------------------------------------------
(* package version                                                         *)

\* The value Parse returns with an error (the *Version is nil).
ParseError == [err |-> TRUE]

\* version.Parse
Parse(versionStr) ==
    LET s1 == TrimPrefix(TrimPrefix(versionStr, <<"v">>), <<"V">>)
        p1 == SplitN2(s1, "+")
        build == IF Len(p1) = 2 THEN p1[2] ELSE <<>>
        s2 == p1[1]
        p2 == SplitN2(s2, "-")
        prerelease == IF Len(p2) = 2 THEN p2[2] ELSE <<>>
        s3 == p2[1]
        versionParts == Split(s3, ".")
        major == Atoi(versionParts[1])
        minor == IF Len(versionParts) > 1 THEN Atoi(versionParts[2])
                 ELSE [val |-> 0, err |-> FALSE]
        patch == IF Len(versionParts) > 2 THEN Atoi(versionParts[3])
                 ELSE [val |-> 0, err |-> FALSE]
    IN  IF Len(versionParts) < 1 \/ Len(versionParts) > 3 THEN ParseError
        ELSE IF major.err \/ minor.err \/ patch.err THEN ParseError
        ELSE [err |-> FALSE, Major |-> major.val, Minor |-> minor.val,
              Patch |-> patch.val, Prerelease |-> prerelease, Build |-> build,
              Raw |-> versionStr]

\* Version.String without the lines that append the build metadata.
StringWithoutBuild(v) ==
    Itoa(v.Major) \o <<".">> \o Itoa(v.Minor) \o <<".">> \o Itoa(v.Patch)
        \o (IF v.Prerelease # <<>> THEN <<"-">> \o v.Prerelease ELSE <<>>)

\* Version.String
String(v) ==
    Itoa(v.Major) \o <<".">> \o Itoa(v.Minor) \o <<".">> \o Itoa(v.Patch)
      \o (IF v.Prerelease # <<>> THEN <<"-">> \o v.Prerelease ELSE <<>>)
      \o (IF v.Build # <<>> THEN <<"+">> \o v.Build ELSE <<>>)

\* Version.Compare with the prerelease rule reversed: a plausible slip.
CompareTagFirst(v, other) ==
    IF v.Major # other.Major THEN (IF v.Major > other.Major THEN 1 ELSE -1)
    ELSE IF v.Minor # other.Minor THEN (IF v.Minor > other.Minor THEN 1 ELSE -1)
    ELSE IF v.Patch # other.Patch THEN (IF v.Patch > other.Patch THEN 1 ELSE -1)
    ELSE IF v.Prerelease = <<>> /\ other.Prerelease # <<>> THEN -1
    ELSE IF v.Prerelease # <<>> /\ other.Prerelease = <<>> THEN 1
    ELSE IF v.Prerelease # other.Prerelease
         THEN (IF StrCmp(v.Prerelease, other.Prerelease) > 0 THEN 1 ELSE -1)
    ELSE 0

\* Version.Compare going on to the build metadata when all else is equal.
CompareBuild(v, other) ==
    IF v.Major # other.Major THEN (IF v.Major > other.Major THEN 1 ELSE -1)
    ELSE IF v.Minor # other.Minor THEN (IF v.Minor > other.Minor THEN 1 ELSE -1)
    ELSE IF v.Patch # other.Patch THEN (IF v.Patch > other.Patch THEN 1 ELSE -1)
    ELSE IF v.Prerelease = <<>> /\ other.Prerelease # <<>> THEN 1
    ELSE IF v.Prerelease # <<>> /\ other.Prerelease = <<>> THEN -1
    ELSE IF v.Prerelease # other.Prerelease
         THEN (IF StrCmp(v.Prerelease, other.Prerelease) > 0 THEN 1 ELSE -1)
    ELSE IF v.Build # other.Build
         THEN (IF StrCmp(v.Build, other.Build) > 0 THEN 1 ELSE -1)
    ELSE 0

\* Version.Compare
Compare(v, other) ==
    IF v.Major # other.Major THEN (IF v.Major > other.Major THEN 1 ELSE -1)
    ELSE IF v.Minor # other.Minor THEN (IF v.Minor > other.Minor THEN 1 ELSE -1)
    ELSE IF v.Patch # other.Patch THEN (IF v.Patch > other.Patch THEN 1 ELSE -1)
    ELSE IF v.Prerelease = <<>> /\ other.Prerelease # <<>> THEN 1
    ELSE IF v.Prerelease # <<>> /\ other.Prerelease = <<>> THEN -1
    ELSE IF v.Prerelease # other.Prerelease
         THEN (IF StrCmp(v.Prerelease, other.Prerelease) > 0 THEN 1 ELSE -1)
    ELSE 0

\* Version.LessThan with <= for <: a plausible slip.
LessThanOrEqual(v, other) == Compare(v, other) <= 0

\* Version.LessThan
LessThan(v, other) == Compare(v, other) < 0

\* Version.GreaterThan with >= for >: a plausible slip.
GreaterThanOrEqual(v, other) == Compare(v, other) >= 0

\* Version.GreaterThan
GreaterThan(v, other) == Compare(v, other) > 0

\* Version.Equal
Equal(v, other) == Compare(v, other) = 0


\* What IsCompatible returns: the boolean, and whether the error is non-nil.
Answer(ok) == [ok |-> ok, err |-> FALSE, kind |-> ""]

\* The error of Parse handed on by a branch.
Failure == [ok |-> FALSE, err |-> TRUE, kind |-> "parse"]

\* fmt.Errorf("unsupported constraint format: %s", constraint)
Unsupported == [ok |-> FALSE, err |-> TRUE, kind |-> "unsupported"]

\* The characters that make IsCompatible read a constraint as not exact.
OperatorChars == {">", "=", "<", "^", "~", "*", "x"}

\* The caret branch as the range up to the next major under Compare.
CaretMatchBelowNextMajor(v, target) ==
    /\ GreaterThan(v, target) \/ Equal(v, target)
    /\ LessThan(v, [target EXCEPT !.Major = @ + 1, !.Minor = 0, !.Patch = 0,
                                  !.Prerelease = <<>>])

\* The caret branch without its test of Major: a plausible slip.
CaretMatchAnyMajor(v, target) == GreaterThan(v, target) \/ Equal(v, target)

\* IsCompatible, the caret branch's answer
CaretMatch(v, target) ==
    v.Major = target.Major /\ (GreaterThan(v, target) \/ Equal(v, target))

\* The tilde branch without its test of Minor: a plausible slip.
TildeMatchAnyMinor(v, target) ==
    v.Major = target.Major /\ (GreaterThan(v, target) \/ Equal(v, target))

\* IsCompatible, the tilde branch's answer
TildeMatch(v, target) ==
    v.Major = target.Major /\ v.Minor = target.Minor
      /\ (GreaterThan(v, target) \/ Equal(v, target))

\* The wildcard branch without its test of the patch position: a plausible slip.
WildcardMatchNoPatch(v, c) ==
    LET parts == Split(ReplaceAll(c, "*", "x"), ".")
    IN  /\ (Len(parts) > 0 /\ parts[1] # <<"x">>) => v.Major = Atoi(parts[1]).val
        /\ (Len(parts) > 1 /\ parts[2] # <<"x">>) => v.Minor = Atoi(parts[2]).val

\* IsCompatible, the wildcard branch's answer: Atoi's error is dropped, so a
\* position that is no number is read as 0.
WildcardMatch(v, c) ==
    LET parts == Split(ReplaceAll(c, "*", "x"), ".")
    IN  /\ (Len(parts) > 0 /\ parts[1] # <<"x">>) => v.Major = Atoi(parts[1]).val
        /\ (Len(parts) > 1 /\ parts[2] # <<"x">>) => v.Minor = Atoi(parts[2]).val
        /\ (Len(parts) > 2 /\ parts[3] # <<"x">>) => v.Patch = Atoi(parts[3]).val

\* Version.IsCompatible. OnTarget is the answer of a branch that parses a
\* target and applies its test to it.
IsCompatible(v, constraintStr) ==
    LET c == TrimSpace(constraintStr)
        OnTarget(text, Test(_)) ==
            LET target == Parse(text)
            IN  IF target.err THEN Failure ELSE Answer(Test(target))
    IN  IF ~ContainsAny(c, OperatorChars)
            THEN OnTarget(c, LAMBDA t : Equal(v, t))
        ELSE IF HasPrefix(c, <<">", "=">>)
            THEN OnTarget(TrimPrefix(c, <<">", "=">>),
                          LAMBDA t : GreaterThan(v, t) \/ Equal(v, t))
        ELSE IF HasPrefix(c, <<">">>)
            THEN OnTarget(TrimPrefix(c, <<">">>), LAMBDA t : GreaterThan(v, t))
        ELSE IF HasPrefix(c, <<"<", "=">>)
            THEN OnTarget(TrimPrefix(c, <<"<", "=">>),
                          LAMBDA t : LessThan(v, t) \/ Equal(v, t))
        ELSE IF HasPrefix(c, <<"<">>)
            THEN OnTarget(TrimPrefix(c, <<"<">>), LAMBDA t : LessThan(v, t))
        ELSE IF HasPrefix(c, <<"^">>)
            THEN OnTarget(TrimPrefix(c, <<"^">>), LAMBDA t : CaretMatch(v, t))
        ELSE IF HasPrefix(c, <<"~">>)
            THEN OnTarget(TrimPrefix(c, <<"~">>), LAMBDA t : TildeMatch(v, t))
        ELSE IF Contains(c, "x") \/ Contains(c, "*")
            THEN Answer(WildcardMatch(v, c))
        ELSE Unsupported

-----------------------------------------------------------------------------
(* package db: RemoteDB.GetRelease over the releases table. The store is   *)
(* taken to answer its queries; a failing connection is not modelled.      *)

\* The zero model.Release, returned beside an error.
NoRelease == [Version |-> <<>>, IsDeprecated |-> FALSE, ReleasedAt |-> 0]

Found(r) == [err |-> "none", release |-> r]

NotFound(kind) == [err |-> kind, release |-> NoRelease]

LatestText == <<"l", "a", "t", "e", "s", "t">>

\* The rows of the releases table for the package: UNIQUE(package_id, version)
\* makes the version text a key.
Rows(tbl) ==
    {[Version |-> t, IsDeprecated |-> tbl[t].IsDeprecated,
      ReleasedAt |-> tbl[t].ReleasedAt] : t \in DOMAIN tbl}

\* The orders in which "ORDER BY released_at DESC" may return the rows: rows
\* with the same released_at come in any order.
RECURSIVE Listings(_)
Listings(rows) ==
    IF rows = {} THEN {<<>>}
    ELSE UNION {{<<r>> \o l : l \in Listings(rows \ {r})} :
                  r \in {x \in rows : \A y \in rows : x.ReleasedAt >= y.ReleasedAt}}

\* RemoteDB.getLatestRelease: WHERE is_deprecated = FALSE ORDER BY
\* released_at DESC LIMIT 1
getLatestRelease(rowsInOrder) ==
    LET live == SelectSeq(rowsInOrder, LAMBDA r : ~r.IsDeprecated)
    IN  IF live = <<>> THEN NotFound("no_releases") ELSE Found(live[1])

\* getExactRelease with the deprecation filter of the other queries: a
\* plausible slip.
getExactReleaseLiveOnly(rowsInOrder, versionStr) ==
    LET v == Parse(versionStr)
        hits == SelectSeq(rowsInOrder,
                          LAMBDA r : r.Version = String(v) /\ ~r.IsDeprecated)
    IN  IF v.err THEN NotFound("invalid_version")
        ELSE IF hits = <<>> THEN NotFound("version_not_found")
        ELSE Found(hits[1])

\* RemoteDB.getExactRelease: WHERE version = normalizedVersion LIMIT 1
getExactRelease(rowsInOrder, versionStr) ==
    LET v == Parse(versionStr)
        hits == SelectSeq(rowsInOrder, LAMBDA r : r.Version = String(v))
    IN  IF v.err THEN NotFound("invalid_version")
        ELSE IF hits = <<>> THEN NotFound("version_not_found")
        ELSE Found(hits[1])

\* The test with < for >, which keeps the least version: a plausible slip.
ImprovesDownward(v, bestVersion) == LessThan(v, bestVersion)

\* getReleaseByConstraint's test that a compatible row replaces the best one
Improves(v, bestVersion) == GreaterThan(v, bestVersion)

\* The loop of getReleaseByConstraint from row i on, bestMatch being the best
\* row so far (NoRelease for nil).
RECURSIVE BestMatchFrom(_, _, _, _)
BestMatchFrom(releases, i, cons, bestMatch) ==
    IF i > Len(releases)
        THEN (IF bestMatch = NoRelease THEN NotFound("no_match") ELSE Found(bestMatch))
    ELSE IF releases[i].IsDeprecated
        THEN BestMatchFrom(releases, i + 1, cons, bestMatch)
    ELSE LET v == Parse(releases[i].Version)
         IN  IF v.err THEN BestMatchFrom(releases, i + 1, cons, bestMatch)
             ELSE LET compatible == IsCompatible(v, cons)
                  IN  IF compatible.err THEN NotFound("invalid_constraint")
                      ELSE IF compatible.ok
                              /\ (bestMatch = NoRelease
                                    \/ Improves(v, Parse(bestMatch.Version)))
                          THEN BestMatchFrom(releases, i + 1, cons, releases[i])
                      ELSE BestMatchFrom(releases, i + 1, cons, bestMatch)

\* RemoteDB.getReleaseByConstraint
getReleaseByConstraint(releases, cons) ==
    IF Len(releases) = 0 THEN NotFound("no_releases")
    ELSE BestMatchFrom(releases, 1, cons, NoRelease)

\* RemoteDB.GetRelease, the queries returning the rows as rowsInOrder
GetRelease(found, rowsInOrder, versionConstraint) ==
    IF ~found THEN NotFound("package_not_found")
    ELSE IF versionConstraint = <<>> \/ versionConstraint = LatestText
        THEN getLatestRelease(rowsInOrder)
    ELSE IF ~Parse(versionConstraint).err
        THEN getExactRelease(rowsInOrder, versionConstraint)
    ELSE getReleaseByConstraint(rowsInOrder, versionConstraint)

-----------------------------------------------------------------------------
(* The inputs the version functions are applied to.                        *)

Nums == 0..MaxNum

\* "M.m.p"
CoreText(major, minor, patch) ==
    Itoa(major) \o <<".">> \o Itoa(minor) \o <<".">> \o Itoa(patch)

CoreTexts == {CoreText(M, m, p) : M \in Nums, m \in Nums, p \in Nums}

\* Prerelease tags: a prefix of another, and a pair that upper case orders.
PreTags == {<<"a">>, <<"a", "b">>, <<"b">>, <<"B">>}

\* Texts with a v, with defaulted components, with build metadata.
ExtraVersionTexts ==
    { <<"v", "1">>, <<"V", "0", ".", "1">>, <<"1", ".", "0", "+", "b">>,
      <<"0", ".", "1", ".", "0", "-", "a", "+", "b">>,
      <<"1", ".", "0", ".", "1", "-", "x">> }

VersionTexts ==
    CoreTexts \cup {c \o <<"-">> \o t : c \in CoreTexts, t \in PreTags}
              \cup ExtraVersionTexts

\* Every version Parse yields on those texts.
ParsedVersions == {Parse(t) : t \in VersionTexts}

\* What follows an operator in a constraint: versions, and texts Parse rejects.
TargetTexts ==
    CoreTexts \cup {c \o <<"-", "a">> : c \in CoreTexts}
              \cup { <<"1">>, <<"v", "1", ".", "0">>, <<>>, <<"a">>,
                     <<"1", ".", ".", "0">>, <<"1", ".", "0", ".", "0", ".", "0">> }

OperatorTexts ==
    { <<>>, <<">", "=">>, <<">">>, <<"<", "=">>, <<"<">>, <<"^">>, <<"~">>, <<"=">> }

\* One position of a wildcard constraint: a number or a marker.
WildcardMarkers == {<<"x">>, <<"X">>, <<"*">>}

PositionTexts == {Itoa(n) : n \in Nums} \cup WildcardMarkers

WildcardTexts ==
    PositionTexts
      \cup {p \o <<".">> \o q : p \in PositionTexts, q \in PositionTexts}
      \cup {p \o <<".">> \o q \o <<".">> \o r :
              p \in PositionTexts, q \in PositionTexts, r \in PositionTexts}

\* Constraints with white space around them, and ones no branch reads.
ExtraConstraintTexts ==
    { <<" ", "^", "1", ".", "0", ".", "0", " ">>,
      <<"1", ".", "x", ".", "y">>, <<"a", "b", "c", ".", "x">>,
      <<"1", ".", "0", ".", "0", "-", "x">>,
      <<"x", ".", "1", ".", "0", ".", "1">>,
      <<"1", ".", "0", ".", "0", ">">>,
      <<" ", ">", "=", "1", ".", "0", ".", "0", " ">>,
      <<"<", " ", "1", ".", "0", ".", "0">> }

ConstraintTexts ==
    {op \o t : op \in OperatorTexts, t \in TargetTexts}
      \cup WildcardTexts \cup ExtraConstraintTexts

\* The version texts of the rows: two versions in order, one that differs
\* from another in build metadata only, and one Parse rejects.
ReleaseTexts ==
    { <<"1", ".", "0", ".", "0">>, <<"1", ".", "1", ".", "0">>,
      <<"1", ".", "1", ".", "0", "+", "b">>, <<"b", "a", "d">> }

RowAttrs == [IsDeprecated : BOOLEAN, ReleasedAt : 1..MaxTime]

\* Every releases table of at most MaxReleases rows.
Tables ==
    UNION {[texts -> RowAttrs] :
             texts \in {t \in SUBSET ReleaseTexts : Cardinality(t) <= MaxReleases}}

\* Version expressions: latest, exact (normalized or not, present or not),
\* constraints of each form, and malformed ones.
ExprTexts ==
    { <<>>, LatestText,
      <<"1", ".", "1", ".", "0">>, <<"v", "1", ".", "1">>, <<"3", ".", "0", ".", "0">>,
      <<"^", "1", ".", "0", ".", "0">>, <<"~", "1", ".", "0", ".", "0">>,
      <<">", "=", "1", ".", "1", ".", "0">>, <<"<", "1", ".", "1", ".", "0">>,
      <<"1", ".", "x">>,
      <<"^", "b", "a", "d">>, <<"=", "1">> }

-----------------------------------------------------------------------------
(* Package parser: tokens, instructions, validation and the line parser.   *)

LowerLetters ==
    << "a", "b", "c", "d", "e", "f", "g", "h", "i", "j", "k", "l", "m",
       "n", "o", "p", "q", "r", "s", "t", "u", "v", "w", "x", "y", "z" >>

UpperLetters ==
    << "A", "B", "C", "D", "E", "F", "G", "H", "I", "J", "K", "L", "M",
       "N", "O", "P", "Q", "R", "S", "T", "U", "V", "W", "X", "Y", "Z" >>

\* strings.ToUpper on ASCII text
ToUpper(s) ==
    [i \in 1..Len(s) |->
        IF \E k \in 1..26 : LowerLetters[k] = s[i]
        THEN UpperLetters[CHOOSE k \in 1..26 : LowerLetters[k] = s[i]]
        ELSE s[i]]

\* The keywords of the instruction language and the Token each one names.
tokenMap ==
       <<"D", "O", "W", "N", "L", "O", "A", "D">> :> "DOWNLOAD"
    @@ <<"E", "X", "T", "R", "A", "C", "T">> :> "EXTRACT"
    @@ <<"E", "X", "T", "R", "A", "C", "T", "_", "T", "A", "R">> :> "EXTRACT_TAR"
    @@ <<"E", "X", "T", "R", "A", "C", "T", "_", "T", "A", "R", "G", "Z">> :> "EXTRACT_TAR_GZ"
    @@ <<"M", "O", "V", "E">> :> "MOVE"
    @@ <<"C", "O", "P", "Y">> :> "COPY"
    @@ <<"R", "E", "N", "A", "M", "E">> :> "RENAME"
    @@ <<"D", "E", "L", "E", "T", "E">> :> "DELETE"
    @@ <<"C", "H", "M", "O", "D">> :> "CHMOD"
    @@ <<"A", "D", "D", "_", "T", "O", "_", "P", "A", "T", "H">> :> "ADD_TO_PATH"
    @@ <<"S", "E", "T", "_", "L", "O", "C", "A", "T", "I", "O", "N">> :> "SET_LOCATION"
    @@ <<"R", "U", "N", "_", "S", "C", "R", "I", "P", "T">> :> "RUN_SCRIPT"

stringToToken(tokenStr) ==
    IF ToUpper(tokenStr) \in DOMAIN tokenMap THEN tokenMap[ToUpper(tokenStr)]
    ELSE "INVALID"

\* The Token constants in the order of their declaration, DOWNLOAD being 0.
TokenOrder ==
    << "DOWNLOAD", "EXTRACT", "EXTRACT_TAR", "EXTRACT_TAR_GZ", "MOVE", "COPY",
       "RENAME", "DELETE", "CHMOD", "ADD_TO_PATH", "SET_LOCATION", "RUN_SCRIPT",
       "INVALID" >>

\* The integer a Token is.
TokenValue(tok) == (CHOOSE i \in 1..Len(TokenOrder) : TokenOrder[i] = tok) - 1

\* What the verb %v prints for a Token: Token is an int with no String
\* method, so its decimal value.
FormatToken(tok) == Itoa(TokenValue(tok))

\* The tokens with a case of their own in the switch of Instruction.Run; the
\* others fall to the default case, the unimplemented instruction error.
RunCases ==
    { "EXTRACT", "EXTRACT_TAR", "EXTRACT_TAR_GZ", "ADD_TO_PATH", "SET_LOCATION",
      "DELETE", "MOVE", "COPY", "RENAME", "CHMOD" }

NoInstruction ==
    [Token |-> "INVALID", Args |-> <<>>, RawLine |-> <<>>, LineNumber |-> 0]

\* Instruction.Validate: "" for nil, otherwise the kind of the error.
Validate(inc) ==
    CASE inc.Token \in {"EXTRACT", "EXTRACT_TAR", "EXTRACT_TAR_GZ"} ->
            IF Len(inc.Args) < 1 \/ Len(inc.Args) > 2
            THEN "requires 1-2 arguments" ELSE ""
      [] inc.Token \in {"ADD_TO_PATH", "SET_LOCATION", "DELETE", "CHMOD"} ->
            IF Len(inc.Args) # 1 THEN "requires exactly 1 argument" ELSE ""
      [] inc.Token \in {"MOVE", "COPY", "RENAME"} ->
            IF Len(inc.Args) # 2 THEN "requires exactly 2 arguments" ELSE ""
      [] inc.Token = "RUN_SCRIPT" ->
            IF Len(inc.Args) < 1 THEN "requires at least 1 argument" ELSE ""
      [] OTHER -> ""

\* What the error of Validate puts in front of "requires".
ValidateNames(inc) ==
    CASE inc.Token \in {"EXTRACT", "EXTRACT_TAR", "EXTRACT_TAR_GZ"} -> <<"E", "X", "T", "R", "A", "C", "T">>
      [] inc.Token = "RUN_SCRIPT" -> <<"R", "U", "N", "_", "S", "C", "R", "I", "P", "T">>
      [] OTHER -> FormatToken(inc.Token)

\* The loop variables of smartSplit; quoteChar "" stands for rune(0).
SplitStart == [parts |-> <<>>, current |-> <<>>, inQuotes |-> FALSE, quoteChar |-> ""]

\* A turn of the loop that lets a quote character open a span anywhere.
SplitStepAnywhere(runes, i, st) ==
    LET ch == runes[i]
    IN  CASE (ch = "\"" \/ ch = "'") /\ ~st.inQuotes ->
                [st EXCEPT !.inQuotes = TRUE, !.quoteChar = ch]
          [] ch = st.quoteChar /\ st.inQuotes ->
                [st EXCEPT !.inQuotes = FALSE, !.quoteChar = ""]
          [] ch = " " /\ ~st.inQuotes ->
                IF Len(st.current) > 0
                THEN [st EXCEPT !.parts = Append(st.parts, st.current), !.current = <<>>]
                ELSE st
          [] OTHER -> [st EXCEPT !.current = Append(st.current, ch)]

\* One turn of the loop of smartSplit, on runes[i].
SplitStep(runes, i, st) ==
    LET ch == runes[i]
    IN  CASE (ch = "\"" \/ ch = "'") /\ ~st.inQuotes /\ (i = 1 \/ runes[i - 1] = " ") ->
                [st EXCEPT !.inQuotes = TRUE, !.quoteChar = ch]
          [] ch = st.quoteChar /\ st.inQuotes ->
                [st EXCEPT !.inQuotes = FALSE, !.quoteChar = ""]
          [] ch = " " /\ ~st.inQuotes ->
                IF Len(st.current) > 0
                THEN [st EXCEPT !.parts = Append(st.parts, st.current), !.current = <<>>]
                ELSE st
          [] OTHER -> [st EXCEPT !.current = Append(st.current, ch)]

RECURSIVE SplitFrom(_, _, _)
SplitFrom(runes, i, st) ==
    IF i > Len(runes) THEN st ELSE SplitFrom(runes, i + 1, SplitStep(runes, i, st))

\* Parser.smartSplit
smartSplit(line) ==
    LET st == SplitFrom(line, 1, SplitStart)
        parts == IF Len(st.current) > 0 THEN Append(st.parts, st.current) ELSE st.parts
    IN  IF st.inQuotes /\ Len(parts) = 0 THEN <<line>> ELSE parts

\* A parseLine that numbers the lines from 0.
parseLineFromZero(line, lineNum) ==
    LET parts == smartSplit(line)
    IN  IF Len(parts) < 1
        THEN [err |-> "empty instruction", name |-> <<>>, inc |-> NoInstruction]
        ELSE IF stringToToken(parts[1]) = "INVALID"
        THEN [err |-> "invalid command", name |-> parts[1], inc |-> NoInstruction]
        ELSE [err |-> "", name |-> <<>>,
              inc |-> [Token |-> stringToToken(parts[1]),
                       Args |-> Tail(parts),
                       RawLine |-> line,
                       LineNumber |-> lineNum - 1]]

\* Parser.parseLine
parseLine(line, lineNum) ==
    LET parts == smartSplit(line)
    IN  IF Len(parts) < 1
        THEN [err |-> "empty instruction", name |-> <<>>, inc |-> NoInstruction]
        ELSE IF stringToToken(parts[1]) = "INVALID"
        THEN [err |-> "invalid command", name |-> parts[1], inc |-> NoInstruction]
        ELSE [err |-> "", name |-> <<>>,
              inc |-> [Token |-> stringToToken(parts[1]),
                       Args |-> Tail(parts),
                       RawLine |-> line,
                       LineNumber |-> lineNum]]

\* What Parse returns beside a nil list: the kind of the error, and the line
\* number and the name its message carries (0 and "" when it carries none).
ParseFailed(kind, lineNum, name) ==
    [err |-> kind, line |-> lineNum, name |-> name, instructions |-> <<>>]

\* A loop that returns, beside an error, the instructions read before it.
RECURSIVE ParseLinesKeeping(_, _, _)
ParseLinesKeeping(lines, n, acc) ==
    IF n > Len(lines)
    THEN IF Len(acc) = 0 THEN ParseFailed("no valid instructions found", 0, <<>>)
         ELSE [err |-> "", line |-> 0, name |-> <<>>, instructions |-> acc]
    ELSE LET line == TrimSpace(lines[n])
         IN  IF line = <<>> \/ HasPrefix(line, <<"#">>)
             THEN ParseLinesKeeping(lines, n + 1, acc)
             ELSE LET r == parseLine(line, n)
                  IN  IF r.err # ""
                      THEN [ParseFailed(r.err, n, r.name) EXCEPT !.instructions = acc]
                      ELSE IF Validate(r.inc) # ""
                      THEN [ParseFailed(Validate(r.inc), n, ValidateNames(r.inc))
                                EXCEPT !.instructions = acc]
                      ELSE ParseLinesKeeping(lines, n + 1, Append(acc, r.inc))

\* The loop of Parser.Parse from the n-th line on, acc the instructions so far.
RECURSIVE ParseLines(_, _, _)
ParseLines(lines, n, acc) ==
    IF n > Len(lines)
    THEN IF Len(acc) = 0 THEN ParseFailed("no valid instructions found", 0, <<>>)
         ELSE [err |-> "", line |-> 0, name |-> <<>>, instructions |-> acc]
    ELSE LET line == TrimSpace(lines[n])
         IN  IF line = <<>> \/ HasPrefix(line, <<"#">>)
             THEN ParseLines(lines, n + 1, acc)
             ELSE LET r == parseLine(line, n)
                  IN  IF r.err # "" THEN ParseFailed(r.err, n, r.name)
                      ELSE IF Validate(r.inc) # ""
                      THEN ParseFailed(Validate(r.inc), n, ValidateNames(r.inc))
                      ELSE ParseLines(lines, n + 1, Append(acc, r.inc))

\* A Parse that stops at the first line at fault and returns the
\* instructions read before it as if the script ended there.
ParserParseUpToError(data) ==
    LET r == ParseLinesKeeping(Split(data, "\n"), 1, <<>>)
    IN  IF Len(r.instructions) > 0 THEN [r EXCEPT !.err = ""] ELSE r

\* Parser.Parse
ParserParse(data) ==
    IF TrimSpace(data) = <<>> THEN ParseFailed("empty instruction set", 0, <<>>)
    ELSE ParseLines(Split(data, "\n"), 1, <<>>)

-----------------------------------------------------------------------------
(* Paths (path/filepath, with "/" as the separator on every platform).     *)

\* strings.Contains for a substring
ContainsStr(s, sub) ==
    \E i \in 0..(Len(s) - Len(sub)) : SubSeq(s, i + 1, i + Len(sub)) = sub

\* strings.EqualFold on ASCII text
EqualFold(s, t) == ToUpper(s) = ToUpper(t)

\* The elements that filepath.Clean keeps, from the i-th element on.
RECURSIVE CleanElems(_, _, _, _)
CleanElems(elems, i, out, rooted) ==
    IF i > Len(elems) THEN out
    ELSE LET e == elems[i]
         IN  IF e = <<>> \/ e = <<".">> THEN CleanElems(elems, i + 1, out, rooted)
             ELSE IF e = <<".", ".">>
             THEN IF Len(out) > 0 /\ out[Len(out)] # <<".", ".">>
                  THEN CleanElems(elems, i + 1, SubSeq(out, 1, Len(out) - 1), rooted)
                  ELSE IF rooted THEN CleanElems(elems, i + 1, out, rooted)
                  ELSE CleanElems(elems, i + 1, Append(out, e), rooted)
             ELSE CleanElems(elems, i + 1, Append(out, e), rooted)

RECURSIVE JoinElems(_)
JoinElems(elems) ==
    IF Len(elems) = 0 THEN <<>>
    ELSE IF Len(elems) = 1 THEN elems[1]
    ELSE elems[1] \o <<"/">> \o JoinElems(Tail(elems))

\* filepath.Clean
Clean(path) ==
    IF path = <<>> THEN <<".">>
    ELSE LET rooted == path[1] = "/"
             body == JoinElems(CleanElems(Split(path, "/"), 1, <<>>, rooted))
         IN  IF rooted THEN <<"/">> \o body
             ELSE IF body = <<>> THEN <<".">> ELSE body

\* filepath.Join of two elements
Join(a, b) ==
    IF a = <<>> /\ b = <<>> THEN <<>>
    ELSE IF a = <<>> THEN Clean(b)
    ELSE IF b = <<>> THEN Clean(a)
    ELSE Clean(a \o <<"/">> \o b)

\* filepath.IsAbs
IsAbs(path) == HasPrefix(path, <<"/">>)

\* absWorkDir of install: the working directory, made absolute.
WorkDir == <<"/", "w">>

\* What getSelfPath returns: the bin directory beside the executable.
PmPath == <<"/", "j", "/", "b", "i", "n">>

-----------------------------------------------------------------------------
(* lib.AddToPath and lib.RemoveFromPath. entries is the user's PATH        *)
(* setting: the entries of the Path variable on windows, the directories   *)
(* of the export lines of the shell's rc file on linux and darwin.         *)

\* What AddToPath returns beside a nil error.
AddToPathResult(os, dir) == IF os = "windows" THEN dir ELSE Join(PmPath, dir)

\* The PATH setting after AddToPath(dir) returned a nil error.
AddToPath(os, dir, entries) ==
    IF os = "windows"
    THEN IF \E k \in 1..Len(entries) : EqualFold(TrimSpace(entries[k]), dir)
         THEN entries
         ELSE Append(entries, dir)
    ELSE Append(entries, Join(PmPath, dir))

\* The PATH setting after RemoveFromPath(dir) returned a nil error.
RemoveFromPath(os, dir, entries) ==
    LET fullPath == Join(PmPath, dir)
    IN  IF os = "windows"
        THEN SelectSeq(entries, LAMBDA e : e # <<>> /\ e # fullPath)
        ELSE SelectSeq(entries, LAMBDA e : ~ContainsStr(e, fullPath))

-----------------------------------------------------------------------------
(* InstallationContext (src/model/model.go).                               *)

\* No context has been created yet.
NoContext ==
    [Status |-> "absent", ErrorMessage |-> "", SysPath |-> <<>>, Location |-> <<>>,
     ID |-> 0, Files |-> <<>>, EnvMods |-> <<>>]

NewInstallationContext ==
    [Status |-> "pending", ErrorMessage |-> "", SysPath |-> <<>>, Location |-> <<>>,
     ID |-> 0, Files |-> <<>>, EnvMods |-> <<>>]

\* An AddFile that records nothing.
AddFileUnrecorded(c, path) == c

AddFile(c, path) == [c EXCEPT !.Files = Append(c.Files, path)]

AddEnvMod(c, modType, varName, varValue, original) ==
    [c EXCEPT !.EnvMods =
        Append(c.EnvMods, [ModificationType |-> modType, VariableName |-> varName,
                           VariableValue |-> varValue, OriginalValue |-> original])]

MarkCompleted(c) == [c EXCEPT !.Status = "completed"]

\* A MarkFailed that loses the error's text.
MarkFailedStatusOnly(c, err) == [c EXCEPT !.Status = "failed"]

MarkFailed(c, err) == [c EXCEPT !.Status = "failed", !.ErrorMessage = err]

-----------------------------------------------------------------------------
(* Instruction.RunWithContext. The dispatch follows Instruction.Run; the   *)
(* records a successful instruction leaves in the context follow the      *)
(* executor's description, RunWithContext itself not being part of the    *)
(* sources at hand.                                                        *)

\* The tokens whose case of the dispatch is the default one.
Unimplemented(inc) == inc.Token \in {"DOWNLOAD", "RUN_SCRIPT"}

\* The tokens that call nothing that can fail.
NeverFails(inc) == inc.Token = "SET_LOCATION"

\* What a call of RunWithContext can return: TRUE for a nil error.
Returns(inc) ==
    IF Unimplemented(inc) THEN {FALSE}
    ELSE IF NeverFails(inc) THEN {TRUE}
    ELSE BOOLEAN

\* err.Error() of the error RunWithContext returned
StepError(inc) ==
    IF Unimplemented(inc) THEN "unimplemented instruction" ELSE "instruction failed"

\* pathToAdd of the ADD_TO_PATH case
PathToAdd(inc) ==
    IF IsAbs(inc.Args[1]) THEN inc.Args[1] ELSE Join(WorkDir, inc.Args[1])

\* The context after RunWithContext returned a nil error.
RunWithContext(inc, c, os) ==
    CASE inc.Token \in {"EXTRACT", "EXTRACT_TAR", "EXTRACT_TAR_GZ"} ->
            AddFile(c, IF Len(inc.Args) > 1 THEN Join(WorkDir, inc.Args[2]) ELSE WorkDir)
      [] inc.Token \in {"MOVE", "COPY", "RENAME"} ->
            AddFile(c, Join(WorkDir, inc.Args[2]))
      [] inc.Token = "ADD_TO_PATH" ->
            AddEnvMod([c EXCEPT !.SysPath = AddToPathResult(os, PathToAdd(inc))],
                      "path_addition", "PATH", AddToPathResult(os, PathToAdd(inc)), <<>>)
      [] inc.Token = "SET_LOCATION" ->
            [c EXCEPT !.Location = Join(WorkDir, inc.Args[1])]
      [] OTHER -> c

\* The host after RunWithContext returned a nil error.
RunOnHost(inc, h, os) ==
    IF inc.Token = "ADD_TO_PATH"
    THEN [h EXCEPT !.path = AddToPath(os, PathToAdd(inc), h.path)]
    ELSE h

-----------------------------------------------------------------------------
(* cleanup (src/cmd/install.go).                                           *)

NoHost == [path |-> <<>>, removeCalls |-> <<>>, deleteCalls |-> <<>>]

\* The host after cleanup(ctx, workDir); removed tells whether RemoveFromPath
\* returned a nil error. Every failure inside cleanup is only a warning.
cleanup(c, h, os, removed) ==
    LET h1 == IF c.SysPath # <<>>
              THEN [h EXCEPT !.removeCalls = Append(h.removeCalls, c.SysPath),
                             !.path = IF removed
                                      THEN RemoveFromPath(os, c.SysPath, h.path)
                                      ELSE h.path]
              ELSE h
        h2 == IF c.Location # <<>> /\ c.Location # WorkDir
              THEN [h1 EXCEPT !.deleteCalls = Append(h1.deleteCalls, c.Location)]
              ELSE h1
    IN  [h2 EXCEPT !.deleteCalls = h2.deleteCalls \o c.Files]

-----------------------------------------------------------------------------
(* The local store, as far as install writes to it.                        *)

NoStore == [saved |-> "none", status |-> "", envMods |-> <<>>, history |-> <<>>]

\* LastInsertId of the row InsertInstallation adds
NewRowID == 1

\* ins.ID after the record was saved: InsertInstallation sets it,
\* UpdateInstallation does not.
SavedID(c, exists, ok) == IF ~exists /\ ok THEN NewRowID ELSE c.ID

\* The text whose lines are the given ones.
RECURSIVE ScriptOf(_)
ScriptOf(lines) ==
    IF Len(lines) = 0 THEN <<>>
    ELSE IF Len(lines) = 1 THEN lines[1]
    ELSE lines[1] \o <<"\n">> \o ScriptOf(Tail(lines))

\* The instruction scripts of the releases installed: three scripts of plain
\* instructions, one with a comment, a blank line, lower-case keywords and
\* quoted arguments, one ending in DOWNLOAD, and four that Parse rejects.
ScriptTexts ==
    { ScriptOf(<<<<"M", "O", "V", "E", " ", "a", " ", "b">>,
               <<"C", "H", "M", "O", "D", " ", "b">>,
               <<"D", "E", "L", "E", "T", "E", " ", "a">>>>),
      ScriptOf(<<<<"E", "X", "T", "R", "A", "C", "T", " ", "a">>,
               <<"A", "D", "D", "_", "T", "O", "_", "P", "A", "T", "H", " ", "b">>,
               <<"A", "D", "D", "_", "T", "O", "_", "P", "A", "T", "H", " ", "/", "c">>,
               <<"C", "O", "P", "Y", " ", "a", " ", "d">>>>),
      ScriptOf(<<<<"S", "E", "T", "_", "L", "O", "C", "A", "T", "I", "O", "N", " ", ".">>,
               <<"E", "X", "T", "R", "A", "C", "T", "_", "T", "A", "R", "G", "Z", " ", "a", " ", "d">>,
               <<"R", "U", "N", "_", "S", "C", "R", "I", "P", "T", " ", "s">>>>),
      ScriptOf(<<<<"#", " ", "c">>,
               <<>>,
               <<" ", "c", "o", "p", "y", " ", "'", "a", " ", "b", "'", " ", "c", "\r">>,
               <<"r", "e", "n", "a", "m", "e", " ", "c", " ", "\"", "d", " ", "e", "\"">>>>),
      ScriptOf(<<<<"S", "E", "T", "_", "L", "O", "C", "A", "T", "I", "O", "N", " ", "l">>,
               <<"E", "X", "T", "R", "A", "C", "T", "_", "T", "A", "R", " ", "a">>,
               <<"D", "O", "W", "N", "L", "O", "A", "D">>>>),
      ScriptOf(<<<<"M", "O", "V", "E", " ", "a", " ", "b">>,
               <<"B", "O", "G", "U", "S", " ", "x">>>>),
      ScriptOf(<<<<"D", "E", "L", "E", "T", "E", " ", "a", " ", "b">>>>),
      ScriptOf(<<>>),
      ScriptOf(<<<<"#", " ", "o", "n", "l", "y">>,
               <<>>>>) }

-----------------------------------------------------------------------------
(* SpecCompare: Compare and the comparators applied to a pair of versions. *)

NoComparison ==
    [step |-> "start", ab |-> 0, ba |-> 0, lt |-> FALSE, eq |-> FALSE, gt |-> FALSE]

NoCall == [called |-> FALSE, ok |-> FALSE, err |-> FALSE, kind |-> ""]

compareVars == <<va, vb, cmpOut>>

compatVars == <<cv, constraint, compat>>

resolveVars == <<pkgFound, table, expr, resolved>>

installInputs == <<goos, script, skipVerify, hasChecksum, packageExists>>

installVars == <<pc, installInputs, ctx, instructions, ran, host, store>>

parseVars == <<scriptText, parseOut>>

splitVars == <<splitLine, splitOut>>

versionVars == <<vtext, vout>>

pathVars == <<pathIn, pathOut>>

\* The variables of the specifications of Parser.Parse, smartSplit,
\* version.Parse and AddToPath.
pureVars == <<parseVars, splitVars, versionVars, pathVars>>

\* What an action of SpecInstall leaves alone.
otherVars == <<compareVars, compatVars, resolveVars, pureVars>>

NotResolved == [called |-> FALSE, err |-> "none", release |-> NoRelease]

\* The variables of a specification that is not running keep these values.
CompareIdle == va = ParseError /\ vb = ParseError /\ cmpOut = NoComparison

CompatIdle == cv = ParseError /\ constraint = <<>> /\ compat = NoCall

ResolveIdle ==
    /\ pkgFound = FALSE
    /\ table = <<>>
    /\ expr = <<>>
    /\ resolved = NotResolved

InstallIdle ==
    /\ pc = "idle"
    /\ goos = "linux"
    /\ script = <<>>
    /\ skipVerify = FALSE
    /\ hasChecksum = FALSE
    /\ packageExists = FALSE
    /\ ctx = NoContext
    /\ instructions = <<>>
    /\ ran = <<>>
    /\ host = NoHost
    /\ store = NoStore

NotParsed ==
    [called |-> FALSE, err |-> "", line |-> 0, name |-> <<>>, instructions |-> <<>>]

NotSplit == [called |-> FALSE, parts |-> <<>>]

NoVersionCall ==
    [step |-> "start", first |-> ParseError, str |-> <<>>, second |-> ParseError,
     again |-> <<>>]

ParseIdle == scriptText = <<>> /\ parseOut = NotParsed

SplitIdle == splitLine = <<>> /\ splitOut = NotSplit

VersionIdle == vtext = <<>> /\ vout = NoVersionCall

NoPathCall == [step |-> "start", entries |-> <<>>, returned |-> <<>>]

PathIdle ==
    pathIn = [os |-> "", dir |-> <<>>, before |-> <<>>] /\ pathOut = NoPathCall

PureIdle == ParseIdle /\ SplitIdle /\ VersionIdle /\ PathIdle

InitCompare ==
    /\ va \in ParsedVersions
    /\ vb \in ParsedVersions
    /\ cmpOut = NoComparison
    /\ CompatIdle /\ ResolveIdle /\ InstallIdle /\ PureIdle

\* va.Compare(vb) and vb.Compare(va)
DoCompare ==
    /\ cmpOut.step = "start"
    /\ cmpOut' = [cmpOut EXCEPT !.step = "compared",
                                !.ab = Compare(va, vb),
                                !.ba = Compare(vb, va)]
    /\ UNCHANGED <<va, vb, compatVars, resolveVars, installVars, pureVars>>

\* va.LessThan(vb), va.Equal(vb), va.GreaterThan(vb)
DoComparators ==
    /\ cmpOut.step = "compared"
    /\ cmpOut' = [cmpOut EXCEPT !.step = "related",
                                !.lt = LessThan(va, vb),
                                !.eq = Equal(va, vb),
                                !.gt = GreaterThan(va, vb)]
    /\ UNCHANGED <<va, vb, compatVars, resolveVars, installVars, pureVars>>

NextCompare == DoCompare \/ DoComparators

SpecCompare == InitCompare /\ [][NextCompare]_vars

-----------------------------------------------------------------------------
(* SpecCompat: IsCompatible applied to a version and a constraint.         *)

InitCompat ==
    /\ cv \in ParsedVersions
    /\ constraint \in ConstraintTexts
    /\ compat = NoCall
    /\ CompareIdle /\ ResolveIdle /\ InstallIdle /\ PureIdle

\* cv.IsCompatible(constraint)
DoIsCompatible ==
    /\ ~compat.called
    /\ LET r == IsCompatible(cv, constraint)
       IN  compat' = [called |-> TRUE, ok |-> r.ok, err |-> r.err,
                       kind |-> r.kind]
    /\ UNCHANGED <<cv, constraint, compareVars, resolveVars, installVars, pureVars>>

NextCompat == DoIsCompatible

SpecCompat == InitCompat /\ [][NextCompat]_vars


-----------------------------------------------------------------------------
(* SpecResolve: GetRelease applied to a releases table and an expression.  *)

InitResolve ==
    /\ pkgFound \in BOOLEAN
    /\ table \in Tables
    /\ pkgFound = FALSE => table = <<>>
    /\ expr \in ExprTexts
    /\ resolved = NotResolved
    /\ CompareIdle /\ CompatIdle /\ InstallIdle /\ PureIdle

\* rdb.GetRelease(packageName, expr)
DoGetRelease ==
    /\ ~resolved.called
    /\ \E l \in Listings(Rows(table)) :
          LET r == GetRelease(pkgFound, l, expr)
          IN  resolved' = [called |-> TRUE, err |-> r.err, release |-> r.release]
    /\ UNCHANGED <<pkgFound, table, expr, compareVars, compatVars, installVars, pureVars>>

NextResolve == DoGetRelease

SpecResolve == InitResolve /\ [][NextResolve]_vars

-----------------------------------------------------------------------------
(* SpecInstall: install from the creation of the InstallationContext on,   *)
(* one action for each stretch of the function between two calls that can  *)
(* fail.                                                                   *)

InitInstall ==
    /\ pc = "new"
    /\ goos \in {"linux", "windows"}
    /\ script \in ScriptTexts
    /\ skipVerify \in BOOLEAN
    /\ hasChecksum \in BOOLEAN
    /\ packageExists \in BOOLEAN
    /\ ctx = NoContext
    /\ instructions = <<>>
    /\ ran = <<>>
    /\ host = NoHost
    /\ store = NoStore
    /\ CompareIdle /\ CompatIdle /\ ResolveIdle /\ PureIdle

\* ctx := model.NewInstallationContext(...)
CreateContext ==
    /\ pc = "new"
    /\ ctx' = NewInstallationContext
    /\ pc' = "begin"
    /\ UNCHANGED <<installInputs, instructions, ran, host, store, otherVars>>

\* ctx.Installation.Status = "in_progress"
BeginInstall ==
    /\ pc = "begin"
    /\ ctx' = [ctx EXCEPT !.Status = "in_progress"]
    /\ pc' = "download"
    /\ UNCHANGED <<installInputs, instructions, ran, host, store, otherVars>>

\* downloadPackage: on an error, MarkFailed and return.
Download ==
    /\ pc = "download"
    /\ \E ok \in BOOLEAN :
          IF ok THEN pc' = "verify" /\ ctx' = ctx
          ELSE pc' = "returned" /\ ctx' = MarkFailed(ctx, "download failed")
    /\ UNCHANGED <<installInputs, instructions, ran, host, store, otherVars>>

\* verifyChecksum, when asked for: on an error, cleanup and return.
VerifyChecksum ==
    /\ pc = "verify"
    /\ IF ~skipVerify /\ hasChecksum
       THEN \E ok \in BOOLEAN :
               IF ok THEN pc' = "parse" /\ host' = host
               ELSE /\ pc' = "returned"
                    /\ \E removed \in BOOLEAN : host' = cleanup(ctx, host, goos, removed)
       ELSE pc' = "parse" /\ host' = host
    /\ UNCHANGED <<installInputs, ctx, instructions, ran, store, otherVars>>

\* p.Parse(release.Instructions): on an error, MarkFailed, cleanup and return.
ParseInstructions ==
    /\ pc = "parse"
    /\ LET r == ParserParse(script)
       IN  IF r.err # ""
           THEN /\ ctx' = MarkFailed(ctx, r.err)
                /\ \E removed \in BOOLEAN :
                      host' = cleanup(MarkFailed(ctx, r.err), host, goos, removed)
                /\ instructions' = instructions
                /\ pc' = "returned"
           ELSE /\ instructions' = r.instructions
                /\ pc' = "loop"
                /\ UNCHANGED <<ctx, host>>
    /\ UNCHANGED <<installInputs, ran, store, otherVars>>

\* Where install goes on after a failed instruction: it returns.
AfterStepErrorNextStep == "loop"

AfterStepError == "returned"

\* One turn of the loop over the instructions: RunWithContext on the next
\* instruction; on an error, MarkFailed, cleanup, AddHistory and return.
RunInstruction ==
    /\ pc = "loop"
    /\ Len(ran) < Len(instructions)
    /\ LET i == Len(ran) + 1
           inc == instructions[i]
       IN  \E ok \in Returns(inc) :
              /\ ran' = Append(ran, [index |-> i, ok |-> ok])
              /\ IF ok
                 THEN /\ ctx' = RunWithContext(inc, ctx, goos)
                      /\ host' = RunOnHost(inc, host, goos)
                      /\ pc' = "loop"
                      /\ store' = store
                 ELSE /\ ctx' = MarkFailed(ctx, StepError(inc))
                      /\ \E removed \in BOOLEAN :
                            host' = cleanup(MarkFailed(ctx, StepError(inc)), host,
                                            goos, removed)
                      /\ store' = [store EXCEPT
                                      !.history = Append(store.history, StepError(inc))]
                      /\ pc' = AfterStepError
    /\ UNCHANGED <<installInputs, instructions, otherVars>>

\* After the loop: ctx.MarkCompleted()
CompleteInstall ==
    /\ pc = "loop"
    /\ Len(ran) = Len(instructions)
    /\ ctx' = MarkCompleted(ctx)
    /\ pc' = "persist"
    /\ UNCHANGED <<installInputs, instructions, ran, host, store, otherVars>>

\* Saving the record: UpdateInstallation or InsertInstallation, whose error is
\* only a warning, then the environment modifications.
Persist ==
    /\ pc = "persist"
    /\ \E ok \in BOOLEAN :
          LET id == SavedID(ctx, packageExists, ok)
          IN  /\ ctx' = [ctx EXCEPT !.ID = id]
              /\ store' = [store EXCEPT
                    !.saved = IF ~ok THEN "none"
                              ELSE IF packageExists THEN "updated" ELSE "inserted",
                    !.status = IF ok THEN ctx.Status ELSE "",
                    !.envMods = IF Len(ctx.EnvMods) > 0 /\ id > 0
                                THEN ctx.EnvMods ELSE <<>>]
    /\ pc' = "returned"
    /\ UNCHANGED <<installInputs, instructions, ran, host, otherVars>>

NextInstall ==
    \/ CreateContext
    \/ BeginInstall
    \/ Download
    \/ VerifyChecksum
    \/ ParseInstructions
    \/ RunInstruction
    \/ CompleteInstall
    \/ Persist

SpecInstall == InitInstall /\ [][NextInstall]_vars

-----------------------------------------------------------------------------
(* SpecParse: Parser.Parse applied to a script text.                       *)

\* A script has at most MaxLines lines.
MaxLines == 2

\* The lines the scripts are made of: instructions inside and outside the
\* argument count of their keyword, in upper and lower case, with quotes and
\* with white space around, an unknown keyword, a comment, an empty line and
\* a line of white space.
LineTexts ==
    { <<"E", "X", "T", "R", "A", "C", "T", " ", "a">>,
      <<"E", "X", "T", "R", "A", "C", "T">>,
      <<"E", "X", "T", "R", "A", "C", "T", " ", "a", " ", "b", " ", "c">>,
      <<"E", "X", "T", "R", "A", "C", "T", "_", "T", "A", "R">>,
      <<"e", "x", "t", "r", "a", "c", "t", "_", "t", "a", "r", "g", "z", " ", "a", " ", "b">>,
      <<"M", "O", "V", "E", " ", "a">>,
      <<"M", "o", "v", "e", " ", "a", " ", "b">>,
      <<"A", "D", "D", "_", "T", "O", "_", "P", "A", "T", "H", " ", "'", "a", " ", "b", "'">>,
      <<"D", "E", "L", "E", "T", "E", " ", "a", " ", "b">>,
      <<"C", "H", "M", "O", "D">>,
      <<"R", "U", "N", "_", "S", "C", "R", "I", "P", "T">>,
      <<"R", "U", "N", "_", "S", "C", "R", "I", "P", "T", " ", "s">>,
      <<"D", "O", "W", "N", "L", "O", "A", "D">>,
      <<"B", "O", "G", "U", "S", " ", "x">>,
      <<"#", " ", "c">>,
      <<>>,
      <<" ", "\t">>,
      <<" ", "C", "O", "P", "Y", " ", "a", " ", "b", " ">> }

RECURSIVE LineLists(_)
LineLists(n) ==
    IF n = 0 THEN {<<>>}
    ELSE LineLists(n - 1) \cup
         {Append(l, t) : l \in {k \in LineLists(n - 1) : Len(k) = n - 1}, t \in LineTexts}

ParseTexts == {ScriptOf(l) : l \in LineLists(MaxLines)}

InitParse ==
    /\ scriptText \in ParseTexts
    /\ parseOut = NotParsed
    /\ CompareIdle /\ CompatIdle /\ ResolveIdle /\ InstallIdle
    /\ SplitIdle /\ VersionIdle /\ PathIdle

\* parser.Parse(scriptText)
DoParse ==
    /\ ~parseOut.called
    /\ LET r == ParserParse(scriptText)
       IN  parseOut' = [called |-> TRUE, err |-> r.err, line |-> r.line,
                        name |-> r.name, instructions |-> r.instructions]
    /\ UNCHANGED <<scriptText, compareVars, compatVars, resolveVars, installVars,
                   splitVars, versionVars, pathVars>>

NextParse == DoParse

SpecParse == InitParse /\ [][NextParse]_vars

-----------------------------------------------------------------------------
(* SpecSplit: Parser.smartSplit applied to a line.                         *)

\* A line has at most MaxLineLen characters.
MaxLineLen == 5

\* The characters of the lines: a letter, the space, the two quote
\* characters and the backslash.
LineChars == {"a", " ", "\"", "'", "\\"}

RECURSIVE LinesOfLen(_)
LinesOfLen(n) ==
    IF n = 0 THEN {<<>>}
    ELSE {Append(l, ch) : l \in LinesOfLen(n - 1), ch \in LineChars}

SplitLines == UNION {LinesOfLen(n) : n \in 0..MaxLineLen}

InitSplit ==
    /\ splitLine \in SplitLines
    /\ splitOut = NotSplit
    /\ CompareIdle /\ CompatIdle /\ ResolveIdle /\ InstallIdle
    /\ ParseIdle /\ VersionIdle /\ PathIdle

\* p.smartSplit(splitLine)
DoSmartSplit ==
    /\ ~splitOut.called
    /\ splitOut' = [called |-> TRUE, parts |-> smartSplit(splitLine)]
    /\ UNCHANGED <<splitLine, compareVars, compatVars, resolveVars, installVars,
                   parseVars, versionVars, pathVars>>

NextSplit == DoSmartSplit

SpecSplit == InitSplit /\ [][NextSplit]_vars

-----------------------------------------------------------------------------
(* SpecVersion: Parse applied to a string, String to its result, and both  *)
(* once more to the string that gives.                                     *)

\* The core of a version string has at most MaxComponents components.
MaxComponents == 4

\* What stands in front of the core: nothing, a v, a V, or two letters.
PrefixTexts == { <<>>, <<"v">>, <<"V">>, <<"v", "V">>, <<"V", "v">> }

\* The components: numbers, one with a leading zero, the empty text and a
\* letter.
ComponentTexts == { <<"0">>, <<"1">>, <<"0", "1">>, <<>>, <<"a">> }

\* What follows the core: a prerelease tag, build metadata, both, an empty
\* tag, empty build metadata, and tags holding a second - or +.
SuffixTexts ==
    { <<>>, <<"-", "a">>, <<"+", "b">>, <<"-", "a", "+", "b">>, <<"-">>, <<"+", "b", "-", "a">>, <<"-", "+", "b">>, <<"-", "a", "+">>, <<"+", "b", "+", "b">>, <<"-", "a", "-", "a">> }

RECURSIVE CoresOf(_)
CoresOf(n) ==
    IF n = 1 THEN ComponentTexts
    ELSE {c \o <<".">> \o t : c \in CoresOf(n - 1), t \in ComponentTexts}

VersionInputs ==
    {p \o c \o s : p \in PrefixTexts,
                   c \in UNION {CoresOf(n) : n \in 1..MaxComponents},
                   s \in SuffixTexts}

InitVersion ==
    /\ vtext \in VersionInputs
    /\ vout = NoVersionCall
    /\ CompareIdle /\ CompatIdle /\ ResolveIdle /\ InstallIdle
    /\ ParseIdle /\ SplitIdle /\ PathIdle

\* v, err := version.Parse(vtext)
DoParseVersion ==
    /\ vout.step = "start"
    /\ vout' = [vout EXCEPT !.step = "parsed", !.first = Parse(vtext)]
    /\ UNCHANGED <<vtext, compareVars, compatVars, resolveVars, installVars,
                   parseVars, splitVars, pathVars>>

\* v.String()
DoString ==
    /\ vout.step = "parsed"
    /\ ~vout.first.err
    /\ vout' = [vout EXCEPT !.step = "printed", !.str = String(vout.first)]
    /\ UNCHANGED <<vtext, compareVars, compatVars, resolveVars, installVars,
                   parseVars, splitVars, pathVars>>

\* w, err := version.Parse(v.String()), then w.String()
DoParseAgain ==
    /\ vout.step = "printed"
    /\ LET w == Parse(vout.str)
       IN  vout' = [vout EXCEPT !.step = "reparsed",
                                !.second = w,
                                !.again = IF w.err THEN <<>> ELSE String(w)]
    /\ UNCHANGED <<vtext, compareVars, compatVars, resolveVars, installVars,
                   parseVars, splitVars, pathVars>>

NextVersion == DoParseVersion \/ DoString \/ DoParseAgain

SpecVersion == InitVersion /\ [][NextVersion]_vars

-----------------------------------------------------------------------------
(* SpecPath: AddToPath applied to a directory, then RemoveFromPath applied *)
(* to what AddToPath returned.                                             *)

\* The PATH setting holds at most MaxEntries entries before the calls.
MaxEntries == 2

\* runtime.GOOS of the builds AddToPath supports.
PathSystems == {"linux", "darwin", "windows"}

\* The directories handed to AddToPath: relative, absolute, in upper case.
PathDirs == { <<"a">>, <<"/", "w", "/", "a">>, <<"A">> }

\* The entries the PATH setting can hold before the calls.
PathEntries == { <<"a">>, <<"/", "j", "/", "b", "i", "n", "/", "a">>, <<"/", "x">> }

RECURSIVE EntryLists(_)
EntryLists(n) ==
    IF n = 0 THEN {<<>>}
    ELSE EntryLists(n - 1) \cup
         {Append(l, e) : l \in {k \in EntryLists(n - 1) : Len(k) = n - 1},
                         e \in PathEntries}

InitPath ==
    /\ pathIn \in [os : PathSystems, dir : PathDirs, before : EntryLists(MaxEntries)]
    /\ pathOut = NoPathCall
    /\ CompareIdle /\ CompatIdle /\ ResolveIdle /\ InstallIdle
    /\ ParseIdle /\ SplitIdle /\ VersionIdle

\* sysPath, err := lib.AddToPath(dir), err being nil
DoAddToPath ==
    /\ pathOut.step = "start"
    /\ pathOut' = [step |-> "added",
                   entries |-> AddToPath(pathIn.os, pathIn.dir, pathIn.before),
                   returned |-> AddToPathResult(pathIn.os, pathIn.dir)]
    /\ UNCHANGED <<pathIn, compareVars, compatVars, resolveVars, installVars,
                   parseVars, splitVars, versionVars>>

\* lib.RemoveFromPath(sysPath), its error being nil
DoRemoveFromPath ==
    /\ pathOut.step = "added"
    /\ pathOut' = [pathOut EXCEPT
                     !.step = "removed",
                     !.entries = RemoveFromPath(pathIn.os, pathOut.returned,
                                                pathOut.entries)]
    /\ UNCHANGED <<pathIn, compareVars, compatVars, resolveVars, installVars,
                   parseVars, splitVars, versionVars>>

NextPath == DoAddToPath \/ DoRemoveFromPath

SpecPath == InitPath /\ [][NextPath]_vars

-----------------------------------------------------------------------------
(* Claims about Compare and the comparators (SpecCompare).                 *)

Triple(v) == <<v.Major, v.Minor, v.Patch>>

\* The numeric order of two (Major, Minor, Patch) triples: -1, 0 or 1.
TripleOrder(a, b) ==
    IF a.Major # b.Major THEN (IF a.Major < b.Major THEN -1 ELSE 1)
    ELSE IF a.Minor # b.Minor THEN (IF a.Minor < b.Minor THEN -1 ELSE 1)
    ELSE IF a.Patch # b.Patch THEN (IF a.Patch < b.Patch THEN -1 ELSE 1)
    ELSE 0

\* The order C1 states: triples first, then no tag above any tag, then the
\* tags as strings.
StatedOrder(a, b) ==
    IF TripleOrder(a, b) # 0 THEN TripleOrder(a, b)
    ELSE IF a.Prerelease = <<>> /\ b.Prerelease = <<>> THEN 0
    ELSE IF a.Prerelease = <<>> THEN 1
    ELSE IF b.Prerelease = <<>> THEN -1
    ELSE StrCmp(a.Prerelease, b.Prerelease)

\* C1: Compare(a, b) orders first by (Major, Minor, Patch) numerically; with
\* equal triples a version without a prerelease tag is greater than one with
\* a tag; with two tags the result is the lexicographic comparison of the tag
\* strings, 0 only when they are identical.
C1_CompareOrder ==
    cmpOut.step # "start" =>
        /\ cmpOut.ab = StatedOrder(va, vb)
        /\ (cmpOut.ab = 0 /\ va.Prerelease # <<>>) => va.Prerelease = vb.Prerelease

\* Two versions with the same triple and different tags have been compared.
C1_Witness ==
    /\ cmpOut.step = "compared"
    /\ Triple(va) = Triple(vb)
    /\ va.Prerelease # <<>> /\ vb.Prerelease # <<>>
    /\ va.Prerelease # vb.Prerelease
    /\ cmpOut.ab = -1

Count(flag) == IF flag THEN 1 ELSE 0

\* C2: exactly one of a.LessThan(b), a.Equal(b), a.GreaterThan(b) holds,
\* Compare(a, b) = -Compare(b, a), and LessThan is transitive: a < b and
\* b < c imply a < c, for every parsed version c.
C2_StrictTotalOrder ==
    cmpOut.step = "related" =>
        /\ Count(cmpOut.lt) + Count(cmpOut.eq) + Count(cmpOut.gt) = 1
        /\ cmpOut.ab = 0 - cmpOut.ba
        /\ \A c \in ParsedVersions :
              (cmpOut.lt /\ LessThan(vb, c)) => LessThan(va, c)

\* a < b has been answered for a pair that some c continues: a < b < c.
C2_Witness ==
    /\ cmpOut.step = "related"
    /\ cmpOut.lt /\ ~cmpOut.eq /\ ~cmpOut.gt
    /\ cmpOut.ab = -1 /\ cmpOut.ba = 1
    /\ \E c \in ParsedVersions : LessThan(vb, c)

-----------------------------------------------------------------------------
(* Claims about IsCompatible (SpecCompat).                                 *)

\* The constraint is op followed by a text Parse accepts.
HasValidTarget(op) ==
    HasPrefix(constraint, op) /\ ~Parse(TrimPrefix(constraint, op)).err

TargetOf(op) == Parse(TrimPrefix(constraint, op))

\* C3: IsCompatible(v, "^T") with T a valid version is true exactly when
\* v.Major = T.Major and v >= T under Compare.
C3_Caret ==
    (compat.called /\ HasValidTarget(<<"^">>)) =>
        /\ ~compat.err
        /\ compat.ok <=> (cv.Major = TargetOf(<<"^">>).Major
                            /\ Compare(cv, TargetOf(<<"^">>)) >= 0)

\* A caret constraint accepted a version above its target in the same major.
C3_Witness ==
    /\ compat.called /\ HasValidTarget(<<"^">>)
    /\ compat.ok
    /\ cv.Minor > TargetOf(<<"^">>).Minor

\* C4: IsCompatible(v, "~T") with T a valid version is true exactly when
\* v.Major = T.Major, v.Minor = T.Minor and v >= T under Compare.
C4_Tilde ==
    (compat.called /\ HasValidTarget(<<"~">>)) =>
        /\ ~compat.err
        /\ compat.ok <=> (cv.Major = TargetOf(<<"~">>).Major
                            /\ cv.Minor = TargetOf(<<"~">>).Minor
                            /\ Compare(cv, TargetOf(<<"~">>)) >= 0)

\* A tilde constraint accepted a version above its target in the same minor.
C4_Witness ==
    /\ compat.called /\ HasValidTarget(<<"~">>)
    /\ compat.ok
    /\ cv.Patch > TargetOf(<<"~">>).Patch

IsNumberText(p) == p # <<>> /\ \A i \in 1..Len(p) : IsDigit(p[i])

\* c is dot-separated positions, each a number or one of the markers, with
\* at least one marker.
IsWildcardForm(c, markers) ==
    LET ps == Split(c, ".")
    IN  /\ \A i \in 1..Len(ps) : ps[i] \in markers \/ IsNumberText(ps[i])
        /\ \E i \in 1..Len(ps) : ps[i] \in markers

\* Every one of the first three positions of c that is present and no marker
\* is v's component at that position.
PositionsMatch(v, c, markers) ==
    LET ps == Split(c, ".")
    IN  \A i \in 1..3 :
            (i <= Len(ps) /\ ps[i] \notin markers) => Triple(v)[i] = DigitsVal(ps[i])

\* C5 as stated: with the markers x, X and *, IsCompatible(v, c) is true
\* exactly when every one of the first three positions that is present and
\* no marker equals v's component.
C5_WildcardWithUpperX ==
    (compat.called /\ IsWildcardForm(constraint, {<<"x">>, <<"X">>, <<"*">>})) =>
        /\ ~compat.err
        /\ compat.ok <=> PositionsMatch(cv, constraint, {<<"x">>, <<"X">>, <<"*">>})

\* C5, amended: the markers are x and * only. With them IsCompatible(v, c)
\* is true exactly when every one of the first three positions that is
\* present and no marker equals v's component. An upper-case X is no marker:
\* beside an x or * it is read as the number 0, and a constraint whose only
\* markers are X fails with an error.
C5_Wildcard ==
    /\ (compat.called /\ IsWildcardForm(constraint, {<<"x">>, <<"*">>})) =>
          /\ ~compat.err
          /\ compat.ok <=> PositionsMatch(cv, constraint, {<<"x">>, <<"*">>})
    /\ (compat.called /\ IsWildcardForm(constraint, {<<"x">>, <<"X">>, <<"*">>})) =>
          IF Contains(constraint, "x") \/ Contains(constraint, "*")
          THEN /\ ~compat.err
               /\ compat.ok <=>
                    PositionsMatch(cv, ReplaceAll(constraint, "X", "0"), {<<"x">>, <<"*">>})
          ELSE compat.err /\ ~compat.ok

\* A wildcard constraint that pins the major and the patch position and
\* leaves the minor to * accepted a version.
C5_Witness ==
    /\ compat.called
    /\ IsWildcardForm(constraint, {<<"x">>, <<"*">>})
    /\ Len(Split(constraint, ".")) = 3
    /\ Split(constraint, ".")[2] = <<"*">>
    /\ IsNumberText(Split(constraint, ".")[1])
    /\ IsNumberText(Split(constraint, ".")[3])
    /\ compat.ok /\ ~compat.err


-----------------------------------------------------------------------------
(* Claims about GetRelease (SpecResolve).                                  *)

IsLatestExpr == expr = <<>> \/ expr = LatestText

\* GetRelease reads the expression as an exact version.
IsExactExpr == ~IsLatestExpr /\ ~Parse(expr).err

\* GetRelease reads the expression as a constraint.
IsConstraintExpr == ~IsLatestExpr /\ Parse(expr).err

\* The rows that are not deprecated.
LiveRows == {r \in Rows(table) : ~r.IsDeprecated}

\* The rows that are not deprecated and whose version satisfies the
\* expression as a constraint.
Survivors ==
    {r \in LiveRows :
        /\ ~Parse(r.Version).err
        /\ IsCompatible(Parse(r.Version), expr) = Answer(TRUE)}

\* C6: for a constraint expression the resolver returns, among the rows that
\* are not deprecated and whose version satisfies the expression, one of the
\* greatest version under Compare, in whatever order the rows are listed.
C6_ConstraintPicksGreatest ==
    (resolved.called /\ pkgFound /\ IsConstraintExpr) =>
        /\ Survivors # {} => resolved.err = "none"
        /\ resolved.err = "none" =>
              /\ resolved.release \in Survivors
              /\ \A s \in Survivors :
                    Compare(Parse(s.Version), Parse(resolved.release.Version)) <= 0

\* A constraint resolved to a row that a lesser survivor precedes in the
\* listing, while a deprecated row satisfies the constraint too.
C6_Witness ==
    /\ resolved.called /\ pkgFound /\ IsConstraintExpr
    /\ resolved.err = "none"
    /\ \E s \in Survivors :
          /\ s.ReleasedAt > resolved.release.ReleasedAt
          /\ Compare(Parse(s.Version), Parse(resolved.release.Version)) < 0
    /\ \E d \in Rows(table) :
          /\ d.IsDeprecated
          /\ ~Parse(d.Version).err
          /\ IsCompatible(Parse(d.Version), expr) = Answer(TRUE)

\* C7: for an empty expression or "latest" the resolver returns the row that
\* is not deprecated with the greatest version under Compare, the latest
\* released_at deciding between equal versions only; it fails with a
\* not-found error when every row is deprecated. Stated for tables whose
\* versions all parse and whose released_at values are pairwise distinct, so
\* that the order of the listing is fixed by the query.
C7_LatestIsGreatestVersion ==
    (/\ resolved.called /\ pkgFound /\ IsLatestExpr
     /\ \A r \in Rows(table) : ~Parse(r.Version).err
     /\ \A r, q \in Rows(table) : r.ReleasedAt = q.ReleasedAt => r = q) =>
        IF LiveRows = {} THEN resolved.err = "no_releases"
        ELSE /\ resolved.err = "none"
             /\ resolved.release \in LiveRows
             /\ \A s \in LiveRows :
                   LET order == Compare(Parse(s.Version), Parse(resolved.release.Version))
                   IN  /\ order <= 0
                       /\ order = 0 => s.ReleasedAt <= resolved.release.ReleasedAt

\* C8: the resolver returns a deprecated release only when the expression is
\* an exact version naming that release; an exact version returns the row of
\* that version even when it is deprecated.
C8_DeprecatedOnlyByExact ==
    resolved.called =>
        /\ (resolved.err = "none" /\ resolved.release.IsDeprecated) =>
              /\ IsExactExpr
              /\ resolved.release.Version = String(Parse(expr))
        /\ (pkgFound /\ IsExactExpr) =>
              \A r \in Rows(table) :
                  r.Version = String(Parse(expr)) =>
                      resolved.err = "none" /\ resolved.release = r

\* An exact expression that is not in normal form returned the deprecated
\* row of its version.
C8_Witness ==
    /\ resolved.called /\ IsExactExpr
    /\ resolved.err = "none"
    /\ resolved.release.IsDeprecated
    /\ resolved.release.Version # expr
    /\ LiveRows # {}

-----------------------------------------------------------------------------
(* Claims about the instruction loop and the status (SpecInstall).         *)

\* C9: when the k-th instruction returns an error, the status of the context
\* is failed and the context holds the error's message, no instruction after
\* the k-th has been run, and the instructions 1..k-1 were each run exactly
\* once, in the order of the script, each returning no error.
C9_HaltsAtFailingInstruction ==
    \A k \in 1..Len(ran) :
        ~ran[k].ok =>
            /\ ctx.Status = "failed"
            /\ ctx.ErrorMessage # ""
            /\ ctx.ErrorMessage = StepError(instructions[ran[k].index])
            /\ Len(ran) = k
            /\ \A j \in 1..k : ran[j].index = j
            /\ \A j \in 1..(k - 1) : ran[j].ok

\* install has returned after the second instruction of a longer script
\* returned an error.
C9_Witness ==
    /\ pc = "returned"
    /\ Len(ran) = 2
    /\ ran[1].ok /\ ~ran[2].ok
    /\ Len(instructions) > 2
    /\ ctx.Status = "failed"

\* The moves of the status that install may make.
StatusMoves ==
    { <<"pending", "in_progress">>,
      <<"in_progress", "completed">>,
      <<"in_progress", "failed">> }

\* C10: the status of a context starts at pending and moves only from pending
\* to in_progress and from in_progress to completed or to failed; once it is
\* completed or failed it stays so and no instruction is run any more; it
\* becomes completed only when every instruction of the script, the final
\* one included, has been run and returned no error.
C10_StatusMachine ==
    [][ /\ ctx.Status = "absent" => ctx'.Status \in {"absent", "pending"}
        /\ (ctx.Status # "absent" /\ ctx'.Status # ctx.Status) =>
               <<ctx.Status, ctx'.Status>> \in StatusMoves
        /\ ctx.Status \in {"completed", "failed"} =>
               ctx'.Status = ctx.Status /\ ran' = ran
        /\ (ctx'.Status = "completed" /\ ctx.Status # "completed") =>
               /\ Len(instructions) > 0
               /\ Len(ran) = Len(instructions)
               /\ \A j \in 1..Len(ran) : ran[j].index = j /\ ran[j].ok
      ]_vars

\* install has returned with the status completed after a script of three
\* instructions or more, the record saved in between.
C10_Witness ==
    /\ pc = "returned"
    /\ ctx.Status = "completed"
    /\ Len(ran) >= 3
    /\ store.saved # "none"

-----------------------------------------------------------------------------
(* Claims about the records of the context and rollback (SpecInstall).     *)

\* The file paths the executor's description has a successful instruction
\* record: the destination of an extraction, a move, a copy or a rename.
RecordedFiles(inc) ==
    CASE inc.Token \in {"EXTRACT", "EXTRACT_TAR", "EXTRACT_TAR_GZ"} ->
            IF Len(inc.Args) = 2 THEN <<Join(WorkDir, inc.Args[2])>> ELSE <<WorkDir>>
      [] inc.Token \in {"MOVE", "COPY", "RENAME"} -> <<Join(WorkDir, inc.Args[2])>>
      [] OTHER -> <<>>

\* The number of environment modifications a successful instruction records.
RecordedMods(inc) == IF inc.Token = "ADD_TO_PATH" THEN 1 ELSE 0

RECURSIVE FilesOfFirst(_)
FilesOfFirst(n) ==
    IF n = 0 THEN <<>> ELSE FilesOfFirst(n - 1) \o RecordedFiles(instructions[n])

RECURSIVE ModsOfFirst(_)
ModsOfFirst(n) ==
    IF n = 0 THEN 0 ELSE ModsOfFirst(n - 1) + RecordedMods(instructions[n])

\* The number of applied-effect records the context holds.
AppliedEffects == Len(ctx.Files) + Len(ctx.EnvMods)

\* The k-th call of RunWithContext is the one that returned an error.
FailedAt(k) == k \in 1..Len(ran) /\ ~ran[k].ok

RemovedFromPath == {host.removeCalls[n] : n \in 1..Len(host.removeCalls)}

\* C12: after an install failed at an instruction, cleanup has handed to PATH
\* removal the value of every environment modification the context holds,
\* each PATH entry added by an ADD_TO_PATH that succeeded before the failure
\* and not only the most recent one.
C12_RollbackRemovesEveryPathEntry ==
    \A k \in 1..Len(ran) :
        FailedAt(k) =>
            \A e \in 1..Len(ctx.EnvMods) :
                ctx.EnvMods[e].VariableValue \in RemovedFromPath

\* The paths handed to lib.Delete by cleanup so far.
DeletedByCleanup == {host.deleteCalls[n] : n \in 1..Len(host.deleteCalls)}

\* C13: cleanup after a failed instruction deletes every file path the
\* context holds except the working directory, and never the working
\* directory itself, also when an extraction had it as its default
\* destination or SET_LOCATION named it.
C13_RollbackSparesWorkDir ==
    /\ WorkDir \notin DeletedByCleanup
    /\ \A k \in 1..Len(ran) :
          FailedAt(k) =>
              \A f \in 1..Len(ctx.Files) :
                  ctx.Files[f] # WorkDir => ctx.Files[f] \in DeletedByCleanup

-----------------------------------------------------------------------------
(* Claims about Parser.Parse (SpecParse).                                  *)

\* The lines of the script handed to Parse, and the words of the n-th.
SourceLines == Split(scriptText, "\n")

WordsOf(n) == smartSplit(TrimSpace(SourceLines[n]))

\* The n-th line is one Parse reads: not empty after trimming, no comment.
Kept(n) ==
    /\ TrimSpace(SourceLines[n]) # <<>>
    /\ ~HasPrefix(TrimSpace(SourceLines[n]), <<"#">>)

KeywordOf(n) == ToUpper(WordsOf(n)[1])

ArgCount(n) == Len(WordsOf(n)) - 1

\* The keywords of the stated argument counts: 1 to 2, exactly 2, exactly 1.
OneOrTwoKeywords ==
    { <<"E", "X", "T", "R", "A", "C", "T">>,
      <<"E", "X", "T", "R", "A", "C", "T", "_", "T", "A", "R">>,
      <<"E", "X", "T", "R", "A", "C", "T", "_", "T", "A", "R", "G", "Z">> }

TwoKeywords ==
    { <<"M", "O", "V", "E">>,
      <<"C", "O", "P", "Y">>,
      <<"R", "E", "N", "A", "M", "E">> }

OneKeywords ==
    { <<"A", "D", "D", "_", "T", "O", "_", "P", "A", "T", "H">>,
      <<"S", "E", "T", "_", "L", "O", "C", "A", "T", "I", "O", "N">>,
      <<"D", "E", "L", "E", "T", "E">>,
      <<"C", "H", "M", "O", "D">> }

\* The n-th line is outside the argument count stated for its keyword.
OutOfRange(n) ==
    /\ Kept(n)
    /\ \/ KeywordOf(n) \in OneOrTwoKeywords /\ ArgCount(n) \notin 1..2
       \/ KeywordOf(n) \in TwoKeywords /\ ArgCount(n) # 2
       \/ KeywordOf(n) \in OneKeywords /\ ArgCount(n) # 1

\* The arity an error about the n-th line has to state.
ExpectedArity(n) ==
    IF KeywordOf(n) \in OneOrTwoKeywords THEN "requires 1-2 arguments"
    ELSE IF KeywordOf(n) \in TwoKeywords THEN "requires exactly 2 arguments"
    ELSE "requires exactly 1 argument"

\* The n-th line gives Parse no reason to fail.
Sound(n) ==
    \/ ~Kept(n)
    \/ /\ KeywordOf(n) \in DOMAIN tokenMap
       /\ ~OutOfRange(n)
       /\ KeywordOf(n) = <<"R", "U", "N", "_", "S", "C", "R", "I", "P", "T">> => ArgCount(n) >= 1

\* C14: a line outside the argument count of its keyword makes Parse fail;
\* when it is the first line at fault, the error names the keyword of the
\* line, the number of the line and the expected argument count; every
\* instruction of a returned list passes Validate.
C14_ArityErrorNamesKeyword ==
    parseOut.called =>
        /\ (\E n \in 1..Len(SourceLines) : OutOfRange(n)) => parseOut.err # ""
        /\ \A n \in 1..Len(SourceLines) :
              (OutOfRange(n) /\ \A m \in 1..(n - 1) : Sound(m)) =>
                  /\ parseOut.err = ExpectedArity(n)
                  /\ parseOut.line = n
                  /\ parseOut.name = KeywordOf(n)
        /\ parseOut.err = "" =>
              \A i \in 1..Len(parseOut.instructions) :
                  Validate(parseOut.instructions[i]) = ""

-----------------------------------------------------------------------------
(* Claims about Parser.smartSplit (SpecSplit).                             *)

QuoteChars == {"\"", "'"}

\* The word collected so far as a list of arguments: none when it is empty.
WordList(word) == IF word = <<>> THEN <<>> ELSE <<word>>

\* The arguments of a line as stated: outside a span a space ends a word; a
\* quote character at a word boundary opens a span that runs to the next
\* occurrence of the same character (to the end of the line when there is
\* none), its characters joining the word as they are; every other
\* character, a backslash or a quote character elsewhere, joins the word.
RECURSIVE SpanSplit(_, _, _)
SpanSplit(s, boundary, word) ==
    IF s = <<>> THEN WordList(word)
    ELSE IF Head(s) \in QuoteChars /\ boundary
    THEN LET rest == Tail(s)
             close == IndexOf(rest, Head(s))
         IN  IF close = 0 THEN WordList(word \o rest)
             ELSE SpanSplit(SubSeq(rest, close + 1, Len(rest)), FALSE,
                            word \o SubSeq(rest, 1, close - 1))
    ELSE IF Head(s) = " "
    THEN WordList(word) \o SpanSplit(Tail(s), TRUE, <<>>)
    ELSE SpanSplit(Tail(s), FALSE, Append(word, Head(s)))

StatedSplit(s) == SpanSplit(s, TRUE, <<>>)

\* The line holds no argument and ends in a quote character that opens a
\* span: its last character is a quote at a word boundary.
EndsInBareQuote(s) ==
    /\ s # <<>>
    /\ StatedSplit(s) = <<>>
    /\ s[Len(s)] \in QuoteChars
    /\ (Len(s) = 1 \/ s[Len(s) - 1] = " ")

\* C15 as stated: the arguments of every line are those of the stated
\* splitting, the quote characters of a span never being part of one.
C15_SplitsOnUnquotedSpaces ==
    splitOut.called => splitOut.parts = StatedSplit(splitLine)

\* C15: the arguments of a line are those of the stated splitting, but for a
\* line that holds no argument and ends in an opening quote: smartSplit
\* returns that line whole, quote characters included, as its one argument.
C15_SmartSplit ==
    splitOut.called =>
        splitOut.parts = IF EndsInBareQuote(splitLine) THEN <<splitLine>>
                         ELSE StatedSplit(splitLine)

\* smartSplit has returned one argument with a space in it for a line of a
\* span between two quote characters.
C15_Witness ==
    /\ splitOut.called
    /\ splitLine = <<"'", "a", " ", "\\", "'">>
    /\ splitOut.parts = <<<<"a", " ", "\\">>>>

\* The numbers of the lines Parse reads, in the order of the script.
KeptLines == SelectSeq([n \in 1..Len(SourceLines) |-> n], Kept)

\* C16: a list Parse returns holds exactly one instruction for each line that
\* is neither empty after trimming nor a comment, in the order of the lines;
\* each instruction carries the trimmed text of its line, the token and the
\* arguments of that line, and as LineNumber the 1-based number of the line
\* in the text, blank lines and comments counted.
C16_OneInstructionPerLine ==
    (parseOut.called /\ parseOut.err = "") =>
        /\ Len(parseOut.instructions) = Len(KeptLines)
        /\ \A i \in 1..Len(KeptLines) :
              LET inc == parseOut.instructions[i]
                  n == KeptLines[i]
              IN  /\ inc.LineNumber = n
                  /\ inc.RawLine = TrimSpace(SourceLines[n])
                  /\ inc.Token = tokenMap[KeywordOf(n)]
                  /\ inc.Args = Tail(WordsOf(n))

\* Parse has returned the one instruction of a script whose first line is
\* skipped: its LineNumber is 2.
C16_Witness ==
    /\ parseOut.called
    /\ parseOut.err = ""
    /\ Len(SourceLines) = 2
    /\ ~Kept(1)
    /\ Len(parseOut.instructions) = 1
    /\ parseOut.instructions[1].LineNumber = 2

\* C17: when Parse returns an error the list it returns is empty, never the
\* instructions read before the error; it returns an error when a line it
\* reads has an unknown keyword or a wrong argument count and when no line
\* is left after the blank lines and the comments, so for an empty text, a
\* text of white space and a text of comments; a list returned without an
\* error is not empty.
C17_AllOrNothing ==
    parseOut.called =>
        /\ parseOut.err # "" => parseOut.instructions = <<>>
        /\ parseOut.err = "" => parseOut.instructions # <<>>
        /\ (\E n \in 1..Len(SourceLines) : ~Sound(n)) => parseOut.err # ""
        /\ (\A n \in 1..Len(SourceLines) : ~Kept(n)) => parseOut.err # ""
        /\ TrimSpace(scriptText) = <<>> => parseOut.err # ""

\* Parse has returned an error and no instruction for a script whose first
\* line is a sound instruction and whose second line is at fault.
C17_Witness ==
    /\ parseOut.called
    /\ Len(SourceLines) = 2
    /\ Kept(1) /\ Sound(1)
    /\ ~Sound(2)
    /\ parseOut.err # ""
    /\ parseOut.instructions = <<>>

-----------------------------------------------------------------------------
(* Claims about Parse and String of a version (SpecVersion).               *)

\* The numeric components of a version string as the statement reads them:
\* one leading v or V taken off, the build metadata cut at the first +, the
\* prerelease tag at the first -, the rest split at the dots.
NumericComponents(s) ==
    LET bare == IF s # <<>> /\ Head(s) \in {"v", "V"} THEN Tail(s) ELSE s
    IN  Split(SplitN2(SplitN2(bare, "+")[1], "-")[1], ".")

\* A non-negative integer: one decimal digit or more.
IsNonNegativeInteger(c) == c # <<>> /\ \A i \in 1..Len(c) : IsDigit(c[i])

StatedReject(s) ==
    LET comps == NumericComponents(s)
    IN  \/ Len(comps) > 3
        \/ \E i \in 1..Len(comps) : ~IsNonNegativeInteger(comps[i])

\* The number a component stands for, 0 for a missing one.
ComponentValue(s, i) ==
    LET comps == NumericComponents(s)
    IN  IF i <= Len(comps) THEN DigitsVal(comps[i]) ELSE 0

\* C18: Parse fails exactly when the string has more than 3 numeric
\* components or a numeric component that is not a non-negative integer;
\* a parsed version has the components' values, 0 for a missing minor or
\* patch, and none of Major, Minor and Patch is negative.
C18_ParseFailsExactlyOnBadComponents ==
    vout.step # "start" =>
        /\ vout.first.err <=> StatedReject(vtext)
        /\ ~vout.first.err =>
               /\ vout.first.Major = ComponentValue(vtext, 1)
               /\ vout.first.Minor = ComponentValue(vtext, 2)
               /\ vout.first.Patch = ComponentValue(vtext, 3)
               /\ vout.first.Major >= 0
               /\ vout.first.Minor >= 0
               /\ vout.first.Patch >= 0

\* The text of a number with no sign and no leading zero.
IsCanonicalNumber(c) == IsNonNegativeInteger(c) /\ (Len(c) > 1 => Head(c) # "0")

\* What follows the core major.minor.patch in the canonical form of v.
CanonicalTail(v) ==
    (IF v.Prerelease # <<>> THEN <<"-">> \o v.Prerelease ELSE <<>>)
        \o (IF v.Build # <<>> THEN <<"+">> \o v.Build ELSE <<>>)

\* s is major.minor.patch[-prerelease][+build] for the fields of v.
IsCanonicalFormOf(s, v) ==
    LET comps == NumericComponents(s)
        core == comps[1] \o <<".">> \o comps[2] \o <<".">> \o comps[3]
    IN  /\ s # <<>> /\ IsDigit(Head(s))
        /\ Len(comps) = 3
        /\ \A i \in 1..3 : IsCanonicalNumber(comps[i])
        /\ DigitsVal(comps[1]) = v.Major
        /\ DigitsVal(comps[2]) = v.Minor
        /\ DigitsVal(comps[3]) = v.Patch
        /\ s = core \o CanonicalTail(v)

\* C19: for a string Parse accepts, String of the result is the canonical
\* form major.minor.patch[-prerelease][+build] with no leading v; Parse
\* accepts that form, gives the same Major, Minor, Patch, Prerelease and
\* Build, and String of the second result is the same text again.
C19_RoundTrip ==
    /\ vout.step \in {"printed", "reparsed"} =>
           IsCanonicalFormOf(vout.str, vout.first)
    /\ vout.step = "reparsed" =>
           /\ ~vout.second.err
           /\ vout.second.Major = vout.first.Major
           /\ vout.second.Minor = vout.first.Minor
           /\ vout.second.Patch = vout.first.Patch
           /\ vout.second.Prerelease = vout.first.Prerelease
           /\ vout.second.Build = vout.first.Build
           /\ vout.again = vout.str

\* "v01.1-a+b" went through Parse, String, Parse and String: the text was
\* normalised to "1.1.0-a+b" and came back unchanged the second time.
C19_Witness ==
    /\ vout.step = "reparsed"
    /\ vtext = <<"v", "0", "1", ".", "1", "-", "a", "+", "b">>
    /\ vout.str = <<"1", ".", "1", ".", "0", "-", "a", "+", "b">>
    /\ vout.again = vout.str

-----------------------------------------------------------------------------
(* Claim about build metadata (SpecCompat).                                *)

\* Build metadata a version is given in place of its own.
BuildTags == {<<>>, <<"b">>, <<"c", "1">>}

\* The parsed version that differs from v in its build metadata only.
WithBuild(v, b) == Parse(String([v EXCEPT !.Build = b]))

\* C20: two parsed versions that differ only in their Build field compare
\* as 0 both ways, are Equal, and get the same answer and the same error
\* from IsCompatible against the constraint.
C20_BuildNeverCounts ==
    compat.called =>
        \A b \in BuildTags :
            LET w == WithBuild(cv, b)
                r == IsCompatible(w, constraint)
            IN  /\ ~w.err
                /\ w.Major = cv.Major /\ w.Minor = cv.Minor /\ w.Patch = cv.Patch
                /\ w.Prerelease = cv.Prerelease
                /\ w.Build = b
                /\ Compare(cv, w) = 0
                /\ Compare(w, cv) = 0
                /\ Equal(cv, w)
                /\ r.ok = compat.ok
                /\ r.err = compat.err

\* 1.0.0+b was matched against ^1.0.0 and accepted.
C20_Witness ==
    /\ compat.called
    /\ cv.Build = <<"b">>
    /\ cv.Prerelease = <<>>
    /\ constraint = <<"^", "1", ".", "0", ".", "0">>
    /\ compat.ok

-----------------------------------------------------------------------------
(* Claims about the forms of a constraint (SpecCompat).                    *)

\* The constraint as IsCompatible reads it.
Trimmed == TrimSpace(constraint)

\* The constraint starts with the operator and what follows it is a version.
HasForm(op) == HasPrefix(Trimmed, op) /\ ~Parse(TrimPrefix(Trimmed, op)).err

\* The version that follows the operator.
FormTarget(op) == Parse(TrimPrefix(Trimmed, op))

\* The constraint has none of the forms: it holds an operator character, so
\* it is no exact version, it starts with none of the operators, and it
\* holds no wildcard marker.
MatchesNoForm ==
    /\ ContainsAny(Trimmed, OperatorChars)
    /\ \A op \in { <<">">>, <<"<">>, <<"^">>, <<"~">> } : ~HasPrefix(Trimmed, op)
    /\ ~ContainsAny(Trimmed, {"x", "X", "*"})

\* C21: on the trimmed constraint, ">=T" holds exactly when v >= T, ">T"
\* that is not ">=" exactly when v > T, "<=T" exactly when v <= T and "<T"
\* that is not "<=" exactly when v < T, under Compare; a constraint that
\* starts with ">=" or "<=" is answered by that form and not as the strict
\* one, and a constraint of no form fails as unsupported.
C21_RelationalForms ==
    compat.called =>
        /\ HasForm(<<">", "=">>) =>
               /\ ~compat.err
               /\ compat.ok <=> Compare(cv, FormTarget(<<">", "=">>)) >= 0
        /\ (HasForm(<<">">>) /\ ~HasPrefix(Trimmed, <<">", "=">>)) =>
               /\ ~compat.err
               /\ compat.ok <=> Compare(cv, FormTarget(<<">">>)) > 0
        /\ HasForm(<<"<", "=">>) =>
               /\ ~compat.err
               /\ compat.ok <=> Compare(cv, FormTarget(<<"<", "=">>)) <= 0
        /\ (HasForm(<<"<">>) /\ ~HasPrefix(Trimmed, <<"<", "=">>)) =>
               /\ ~compat.err
               /\ compat.ok <=> Compare(cv, FormTarget(<<"<">>)) < 0
        /\ MatchesNoForm => (compat.err /\ compat.kind = "unsupported")

\* 1.0.0 was matched against " >=1.0.0 " and accepted: the strict form
\* would have refused it, and the untrimmed text is no constraint.
C21_Witness ==
    /\ compat.called
    /\ constraint = <<" ", ">", "=", "1", ".", "0", ".", "0", " ">>
    /\ cv.Major = 1 /\ cv.Minor = 0 /\ cv.Patch = 0 /\ cv.Prerelease = <<>>
    /\ compat.ok

\* The operators a constraint can start with, the longer ones first.
PrefixOperators == << <<">", "=">>, <<">">>, <<"<", "=">>, <<"<">>, <<"^">>, <<"~">> >>

\* The constraint is of the wildcard form: no operator in front, and an x or
\* a * in it.
IsWildcardConstraint ==
    /\ \A i \in 1..Len(PrefixOperators) : ~HasPrefix(Trimmed, PrefixOperators[i])
    /\ ContainsAny(Trimmed, {"x", "*"})

\* One of the first three positions of the wildcard constraint is neither a
\* marker nor a number.
WildcardPositionMalformed ==
    LET parts == Split(ReplaceAll(Trimmed, "*", "x"), ".")
    IN  \E i \in 1..Len(parts) :
            i <= 3 /\ parts[i] \notin {<<"x">>, <<"X">>} /\ Atoi(parts[i]).err

\* The version text inside the constraint is malformed: the whole of an exact
\* constraint, what follows the operator of a relational, caret or tilde
\* constraint, a position of a wildcard constraint.
MalformedInside ==
    \/ ~ContainsAny(Trimmed, OperatorChars) /\ Parse(Trimmed).err
    \/ \E i \in 1..Len(PrefixOperators) :
          /\ HasPrefix(Trimmed, PrefixOperators[i])
          /\ \A j \in 1..(i - 1) : ~HasPrefix(Trimmed, PrefixOperators[j])
          /\ Parse(TrimPrefix(Trimmed, PrefixOperators[i])).err
    \/ IsWildcardConstraint /\ WildcardPositionMalformed

\* C22: malformed version text inside a constraint makes IsCompatible return
\* an error, whatever the form of the constraint.
C22_MalformedTextIsAnError ==
    (compat.called /\ MalformedInside) => compat.err

-----------------------------------------------------------------------------
(* Claim about the errors of a constraint expression (SpecResolve).        *)

\* The expression itself is malformed: IsCompatible fails on it, for whatever
\* version, its error depending on the constraint only.
ExprMalformed == IsCompatible(Parse(<<"0">>), expr).err

\* C23: for a constraint expression the resolver fails with the error of the
\* constraint when the expression is malformed, whatever the rows are, and
\* with the error of no compatible version (no releases at all, for an empty
\* table) when the expression is well formed and no row survives the filter.
C23_ConstraintErrors ==
    (resolved.called /\ pkgFound /\ IsConstraintExpr) =>
        /\ ExprMalformed => resolved.err = "invalid_constraint"
        /\ (~ExprMalformed /\ Survivors = {}) =>
               resolved.err = (IF Rows(table) = {} THEN "no_releases" ELSE "no_match")

-----------------------------------------------------------------------------
(* Claim about the ranges of the caret and the tilde (SpecCompat).         *)

\* The first version of the next major: the upper bound of ^T.
NextMajor(t) ==
    [t EXCEPT !.Major = @ + 1, !.Minor = 0, !.Patch = 0,
              !.Prerelease = <<>>, !.Build = <<>>]

\* The first version of the next minor: the upper bound of ~T.
NextMinor(t) ==
    [t EXCEPT !.Minor = @ + 1, !.Patch = 0, !.Prerelease = <<>>, !.Build = <<>>]

\* target <= v < bound under Compare.
InHalfOpenRange(v, target, bound) ==
    Compare(v, target) >= 0 /\ Compare(v, bound) < 0

\* v is a prerelease of the bound: the bound's numbers with a tag.
IsPrereleaseOf(v, bound) ==
    Triple(v) = Triple(bound) /\ v.Prerelease # <<>>

-----------------------------------------------------------------------------
(* Claim about the operations Parse returns (SpecParse).                   *)

\* The operation set of an instruction.
OperationSet ==
    { "EXTRACT", "EXTRACT_TAR", "EXTRACT_TAR_GZ", "MOVE", "COPY", "RENAME",
      "DELETE", "CHMOD", "ADD_TO_PATH", "SET_LOCATION", "RUN_SCRIPT" }

\* The instruction has the number of arguments of its operation.
ArityChecked(inc) ==
    CASE inc.Token \in {"EXTRACT", "EXTRACT_TAR", "EXTRACT_TAR_GZ"} ->
            Len(inc.Args) \in 1..2
      [] inc.Token \in {"ADD_TO_PATH", "SET_LOCATION", "DELETE", "CHMOD"} ->
            Len(inc.Args) = 1
      [] inc.Token \in {"MOVE", "COPY", "RENAME"} -> Len(inc.Args) = 2
      [] inc.Token = "RUN_SCRIPT" -> Len(inc.Args) >= 1
      [] OTHER -> FALSE

\* C25: every instruction Parse returns is of the operation set, has the
\* number of arguments of its operation, and has a case of its own in the
\* dispatch of Run; a line with another keyword makes Parse fail.
C25_ParsedAreRunnableOperations ==
    (parseOut.called /\ parseOut.err = "") =>
        \A i \in 1..Len(parseOut.instructions) :
            LET inc == parseOut.instructions[i]
            IN  /\ inc.Token \in OperationSet
                /\ ArityChecked(inc)
                /\ inc.Token \in RunCases

-----------------------------------------------------------------------------
(* Claim about AddToPath and RemoveFromPath (SpecPath).                    *)

\* C26: RemoveFromPath applied to the value a successful AddToPath returned
\* removes the entry AddToPath registered: the PATH setting is what it was
\* before the addition.
C26_RemoveUndoesAdd ==
    pathOut.step = "removed" => pathOut.entries = pathIn.before

-----------------------------------------------------------------------------
(* Claims about the end of install (SpecInstall).                          *)

\* The download, the checksum and the parsing went well, Parse returning at
\* least one instruction, and every instruction ran and returned a nil error.
AllStepsSucceeded ==
    /\ Len(instructions) > 0
    /\ Len(ran) = Len(instructions)
    /\ \A k \in 1..Len(ran) : ran[k].ok

\* C27: when install returns after it created the context, the status of the
\* context is terminal: completed when every step succeeded, failed with an
\* error message that is not empty otherwise; it is neither pending nor
\* in_progress.
C27_ReturnsInTerminalStatus ==
    pc = "returned" =>
        /\ ctx.Status \in {"completed", "failed"}
        /\ ctx.Status = "completed" <=> AllStepsSucceeded
        /\ ctx.Status = "failed" => ctx.ErrorMessage # ""

\* C28: after a successful install whose record was saved, by an insertion or
\* by the update of the package's row, every environment modification of the
\* context is in the store, under a record id that is set.
C28_EnvModsAreSaved ==
    (pc = "returned" /\ ctx.Status = "completed"
        /\ store.saved \in {"inserted", "updated"}) =>
        /\ store.envMods = ctx.EnvMods
        /\ Len(ctx.EnvMods) > 0 => ctx.ID > 0

-----------------------------------------------------------------------------
(* Claim about the constraints that are versions (SpecCompat).             *)

\* C29: a constraint that Parse accepts as a version is an exact constraint
\* for IsCompatible: the answer is Equal against the parsed constraint, with
\* no error, also when a tag of the version holds the letter x.
C29_VersionsAreExactConstraints ==
    (compat.called /\ ~Parse(constraint).err) =>
        /\ ~compat.err
        /\ compat.ok <=> Equal(cv, Parse(constraint))

\* The lines of the script of the release.
ScriptLines == Split(script, "\n")

\* The n-th line of the script is one Parse reads.
IsInstructionLine(n) ==
    /\ TrimSpace(ScriptLines[n]) # <<>>
    /\ ~HasPrefix(TrimSpace(ScriptLines[n]), <<"#">>)

\* The n-th line has an unknown keyword or a wrong number of arguments.
IsBadLine(n) ==
    LET parts == smartSplit(TrimSpace(ScriptLines[n]))
    IN  /\ IsInstructionLine(n)
        /\ \/ Len(parts) < 1
           \/ stringToToken(parts[1]) = "INVALID"
           \/ Validate([Token |-> stringToToken(parts[1]), Args |-> Tail(parts),
                        RawLine |-> TrimSpace(ScriptLines[n]), LineNumber |-> n]) # ""

ScriptHasBadLine == \E n \in 1..Len(ScriptLines) : IsBadLine(n)

\* C30: install runs no instruction before the whole script is parsed and
\* checked: when a line of the script, at whatever position, has an unknown
\* keyword or a wrong number of arguments, no instruction ever runs, nothing
\* is added to or removed from the PATH, nothing is deleted, and the context
\* records no file and no modification; when an instruction has run, every
\* instruction line of the script is in the list Parse returned.
C30_NothingRunsBeforeParsing ==
    /\ ScriptHasBadLine =>
           /\ ran = <<>>
           /\ host = NoHost
           /\ ctx.Files = <<>> /\ ctx.EnvMods = <<>>
           /\ ctx.SysPath = <<>> /\ ctx.Location = <<>>
    /\ ran # <<>> =>
           Len(instructions) =
               Cardinality({n \in 1..Len(ScriptLines) : IsInstructionLine(n)})

\* install returned on a script whose first line is a sound instruction and
\* whose second line has an unknown keyword: nothing ran, the status is
\* failed.
C30_Witness ==
    /\ pc = "returned"
    /\ Len(ScriptLines) > 1
    /\ IsInstructionLine(1) /\ ~IsBadLine(1)
    /\ IsBadLine(2)
    /\ ran = <<>>
    /\ ctx.Status = "failed"

=============================================================================
